---- MODULE Spec2Model ----
(***************************************************************************)
(* template-go-chi: the request pipeline (Recoverer, trustProxy, tracing,  *)
(* request logging, handler) and the process lifecycle of main().          *)
(*                                                                         *)
(* Go strings are modelled as sequences of one-character strings, so that  *)
(* splitting, lower-casing, address parsing and UUID formatting are        *)
(* computed character by character as the library code computes them.      *)
(***************************************************************************)
EXTENDS Integers, Sequences, FiniteSets, TLC

\* ------------------------------------------------------------------------
\* Strings
\* ------------------------------------------------------------------------

Digits == <<"0", "1", "2", "3", "4", "5", "6", "7", "8", "9">>

HexLower == <<"0", "1", "2", "3", "4", "5", "6", "7", "8", "9",
              "a", "b", "c", "d", "e", "f">>

HexUpper == <<"0", "1", "2", "3", "4", "5", "6", "7", "8", "9",
              "A", "B", "C", "D", "E", "F">>

UpperLetters == <<"A", "B", "C", "D", "E", "F", "G", "H", "I", "J", "K", "L", "M",
                  "N", "O", "P", "Q", "R", "S", "T", "U", "V", "W", "X", "Y", "Z">>

LowerLetters == <<"a", "b", "c", "d", "e", "f", "g", "h", "i", "j", "k", "l", "m",
                  "n", "o", "p", "q", "r", "s", "t", "u", "v", "w", "x", "y", "z">>

Range(f) == {f[i] : i \in DOMAIN f}

\* index of c in the table t, 0 when absent
IndexIn(t, c) == IF c \in Range(t) THEN CHOOSE i \in DOMAIN t : t[i] = c ELSE 0

\* strings.ToLower, on one character and on a string
LowerOf == [c \in Range(UpperLetters) |-> LowerLetters[IndexIn(UpperLetters, c)]]

LowerChar(c) == IF c \in DOMAIN LowerOf THEN LowerOf[c] ELSE c

ToLower(s) == [i \in DOMAIN s |-> LowerChar(s[i])]

\* strings.IndexByte + 1: position of the first c in s, 0 when absent
IndexByte(s, c) == IF c \in Range(s) THEN CHOOSE i \in DOMAIN s : s[i] = c /\ \A j \in 1..(i - 1) : s[j] # c ELSE 0

\* strings.LastIndexByte + 1
LastIndexByte(s, c) == IF c \in Range(s) THEN CHOOSE i \in DOMAIN s : s[i] = c /\ \A j \in (i + 1)..Len(s) : s[j] # c ELSE 0

\* s[from..to] with Go's half-open slices written as closed 1-based ranges
Slice(s, from, to) == IF from > to THEN <<>> ELSE SubSeq(s, from, to)

\* strings.Split(s, sep) for a one-character separator
RECURSIVE Split(_, _)
Split(s, sep) ==
    LET i == IndexByte(s, sep)
    IN  IF i = 0 THEN <<s>>
        ELSE <<Slice(s, 1, i - 1)>> \o Split(Slice(s, i + 1, Len(s)), sep)

\* strings.SplitN(s, sep, 2)[0]: everything before the first separator
SplitN2First(s, sep) ==
    LET i == IndexByte(s, sep)
    IN  IF i = 0 THEN s ELSE Slice(s, 1, i - 1)

\* value of a decimal digit string (digits only, short enough not to overflow)
RECURSIVE DecValue(_)
DecValue(s) ==
    IF s = <<>> THEN 0
    ELSE 10 * DecValue(Slice(s, 1, Len(s) - 1)) + (IndexIn(Digits, s[Len(s)]) - 1)

\* value of each hexadecimal digit, either letter case
HexDigitValue ==
    [c \in Range(HexLower) \cup Range(HexUpper) |->
        IF c \in Range(HexLower) THEN IndexIn(HexLower, c) - 1 ELSE IndexIn(HexUpper, c) - 1]

IsHexChar(c) == c \in DOMAIN HexDigitValue

HexCharValue(c) == HexDigitValue[c]

RECURSIVE HexValue(_)
HexValue(s) ==
    IF s = <<>> THEN 0
    ELSE 16 * HexValue(Slice(s, 1, Len(s) - 1)) + HexCharValue(s[Len(s)])

RECURSIVE Pow2(_)
Pow2(n) == IF n = 0 THEN 1 ELSE 2 * Pow2(n - 1)

RECURSIVE Zeros(_)
Zeros(n) == IF n <= 0 THEN <<>> ELSE <<0>> \o Zeros(n - 1)

\* ------------------------------------------------------------------------
\* net.SplitHostPort, netip.ParseAddr, netip.ParsePrefix, Prefix.Contains
\* An address is [bitlen, units]: four octets (bitlen 32) or eight 16-bit
\* groups (bitlen 128).  Zones and IPv4-in-IPv6 text are outside the input
\* alphabet of the model.
\* ------------------------------------------------------------------------

Fail == [ok |-> FALSE]

SplitHostPort(hostport) ==
    LET i == LastIndexByte(hostport, ":")
        n == Len(hostport)
    IN  IF i = 0 THEN Fail                                   \* missing port
        ELSE IF hostport[1] = "["
        THEN LET end == IndexByte(hostport, "]")
             IN  IF end = 0 THEN Fail                        \* missing ']'
                 ELSE IF end = n THEN Fail                   \* missing port
                 ELSE IF end + 1 # i THEN Fail               \* too many colons / missing port
                 ELSE IF "[" \in Range(Slice(hostport, 2, n)) THEN Fail
                 ELSE IF "]" \in Range(Slice(hostport, end + 1, n)) THEN Fail
                 ELSE [ok |-> TRUE, host |-> Slice(hostport, 2, end - 1),
                       port |-> Slice(hostport, i + 1, n)]
        ELSE LET host == Slice(hostport, 1, i - 1)
             IN  IF ":" \in Range(host) THEN Fail            \* too many colons
                 ELSE IF "[" \in Range(hostport) THEN Fail
                 ELSE IF "]" \in Range(hostport) THEN Fail
                 ELSE [ok |-> TRUE, host |-> host, port |-> Slice(hostport, i + 1, n)]

IPv4FieldOK(f) ==
    /\ Len(f) >= 1
    /\ Len(f) <= 3
    /\ \A k \in DOMAIN f : f[k] \in Range(Digits)
    /\ (Len(f) > 1 => f[1] # "0")
    /\ DecValue(f) <= 255

parseIPv4(s) ==
    LET fields == Split(s, ".")
    IN  IF Len(fields) = 4 /\ \A k \in 1..4 : IPv4FieldOK(fields[k])
        THEN [ok |-> TRUE, addr |-> [bitlen |-> 32, units |-> [k \in 1..4 |-> DecValue(fields[k])]]]
        ELSE Fail

IPv6FieldOK(f) == Len(f) >= 1 /\ Len(f) <= 4 /\ \A k \in DOMAIN f : IsHexChar(f[k])

IPv6Groups(s) == IF s = <<>> THEN <<>> ELSE Split(s, ":")

parseIPv6(s) ==
    LET ell == {i \in 1..(Len(s) - 1) : s[i] = ":" /\ s[i + 1] = ":"}
    IN  IF ell = {}
        THEN LET g == IPv6Groups(s)
             IN  IF Len(g) = 8 /\ \A k \in 1..8 : IPv6FieldOK(g[k])
                 THEN [ok |-> TRUE, addr |-> [bitlen |-> 128, units |-> [k \in 1..8 |-> HexValue(g[k])]]]
                 ELSE Fail
        ELSE IF Cardinality(ell) > 1 THEN Fail
        ELSE LET p == CHOOSE i \in ell : TRUE
                 left == IPv6Groups(Slice(s, 1, p - 1))
                 right == IPv6Groups(Slice(s, p + 2, Len(s)))
             IN  IF /\ Len(left) + Len(right) <= 7       \* :: expands to at least one group
                    /\ \A k \in DOMAIN left : IPv6FieldOK(left[k])
                    /\ \A k \in DOMAIN right : IPv6FieldOK(right[k])
                 THEN [ok |-> TRUE,
                       addr |-> [bitlen |-> 128,
                                 units |-> [k \in DOMAIN left |-> HexValue(left[k])]
                                           \o Zeros(8 - Len(left) - Len(right))
                                           \o [k \in DOMAIN right |-> HexValue(right[k])]]]
                 ELSE Fail

\* netip.ParseAddr: the first '.' or ':' decides the family
ParseAddr(s) ==
    LET marks == {i \in DOMAIN s : s[i] \in {".", ":", "%"}}
    IN  IF marks = {} THEN Fail
        ELSE LET m == CHOOSE i \in marks : \A j \in marks : i <= j
             IN  IF s[m] = "." THEN parseIPv4(s)
                 ELSE IF s[m] = ":" THEN parseIPv6(s)
                 ELSE Fail

\* netip.ParsePrefix: "<addr>/<bits>"
ParsePrefix(s) ==
    LET i == LastIndexByte(s, "/")
    IN  IF i = 0 THEN Fail
        ELSE LET ip == ParseAddr(Slice(s, 1, i - 1))
                 bitsStr == Slice(s, i + 1, Len(s))
             IN  IF /\ ip.ok
                    /\ Len(bitsStr) >= 1 /\ Len(bitsStr) <= 3
                    /\ \A k \in DOMAIN bitsStr : bitsStr[k] \in Range(Digits)
                    /\ (Len(bitsStr) > 1 => bitsStr[1] # "0")
                    /\ DecValue(bitsStr) <= ip.addr.bitlen
                 THEN [ok |-> TRUE, prefix |-> [ip |-> ip.addr, bits |-> DecValue(bitsStr)]]
                 ELSE Fail

\* netip.PrefixFrom(addr, bits)
PrefixFrom(addr, bits) == [ip |-> addr, bits |-> bits]

UnitWidth(addr) == IF addr.bitlen = 32 THEN 8 ELSE 16

\* netip.Prefix.Contains: same family and the first p.bits bits agree
Contains(p, ip) ==
    /\ p.ip.bitlen = ip.bitlen
    /\ LET w == UnitWidth(ip)
           full == p.bits \div w
           rem == p.bits % w
       IN  /\ \A k \in 1..full : p.ip.units[k] = ip.units[k]
           /\ (rem > 0 => (p.ip.units[full + 1] \div Pow2(w - rem))
                          = (ip.units[full + 1] \div Pow2(w - rem)))

\* ------------------------------------------------------------------------
\* Trust resolution (trustProxy and its helpers)
\* ------------------------------------------------------------------------

trustedIPs ==
    << <<"1", "9", "2", ".", "1", "6", "8", ".", "0", ".", "0", "/", "1", "6">>,
       <<"1", "7", "2", ".", "1", "6", ".", "0", ".", "0", "/", "1", "2">>,
       <<"1", "0", ".", "0", ".", "0", ".", "0", "/", "8">>,
       <<"1", "2", "7", ".", "0", ".", "0", ".", "1", "/", "8">>,
       <<"f", "d", "0", "0", ":", ":", "/", "8">>,
       <<":", ":", "1">> >>

\* parseIPs: a CIDR expression is parsed as a prefix, a bare address becomes
\* the single-host prefix of its full bit length.  (The panics on a parse
\* error cannot happen for the fixed list above.)
parseIPs(ips) ==
    [k \in DOMAIN ips |->
        IF "/" \in Range(ips[k])
        THEN ParsePrefix(ips[k]).prefix
        ELSE LET a == ParseAddr(ips[k]).addr IN PrefixFrom(a, a.bitlen)]

parsedTrustedIPs == parseIPs(trustedIPs)

proxyIPHeaders == <<"X-Envoy-External-Address", "X-Forwarded-For", "X-Real-IP", "True-Client-IP">>

schemeHeaders == <<"X-Forwarded-Proto", "X-Forwarded-Scheme">>

xForwardedHost == "X-Forwarded-Host"

xRequestID == "X-Request-Id"

\* http.Header.Get: the value, "" when the header is absent
HeaderGet(headers, name) == headers[name]

\* the variant of isTrustedIP that swallows the parse error
isTrustedIPNoErr(remoteAddr, prefixes) ==
    LET split == SplitHostPort(remoteAddr)
        ipStr == IF split.ok THEN split.host ELSE remoteAddr
        parsed == ParseAddr(ipStr)
    IN  IF ~parsed.ok THEN [trusted |-> FALSE, err |-> FALSE]
        ELSE [trusted |-> \E k \in DOMAIN prefixes : Contains(prefixes[k], parsed.addr),
              err |-> FALSE]

\* the variant of isTrustedIP that gives up when there is no port to split
\* off
isTrustedIPPortRequired(remoteAddr, prefixes) ==
    LET split == SplitHostPort(remoteAddr)
        parsed == IF split.ok THEN ParseAddr(split.host) ELSE Fail
    IN  IF ~parsed.ok THEN [trusted |-> FALSE, err |-> TRUE]
        ELSE [trusted |-> \E k \in DOMAIN prefixes : Contains(prefixes[k], parsed.addr),
              err |-> FALSE]

isTrustedIP(remoteAddr, prefixes) ==
    LET split == SplitHostPort(remoteAddr)
        ipStr == IF split.ok THEN split.host ELSE remoteAddr
        parsed == ParseAddr(ipStr)
    IN  IF ~parsed.ok THEN [trusted |-> FALSE, err |-> TRUE]
        ELSE [trusted |-> \E k \in DOMAIN prefixes : Contains(prefixes[k], parsed.addr),
              err |-> FALSE]

\* index of the first header of the list with a non-empty value, 0 if none
FirstPresent(headers, names) ==
    LET hits == {k \in DOMAIN names : HeaderGet(headers, names[k]) # <<>>}
    IN  IF hits = {} THEN 0 ELSE CHOOSE k \in hits : \A j \in hits : k <= j

\* the variant of getRealIP in which a later header overrides an earlier one
getRealIPLastWins(headers) ==
    LET hits == {k \in DOMAIN proxyIPHeaders : HeaderGet(headers, proxyIPHeaders[k]) # <<>>}
    IN  IF hits = {} THEN <<>>
        ELSE SplitN2First(HeaderGet(headers, proxyIPHeaders[CHOOSE k \in hits : \A j \in hits : k >= j]), ",")

getRealIP(headers) ==
    LET k == FirstPresent(headers, proxyIPHeaders)
    IN  IF k = 0 THEN <<>>
        ELSE SplitN2First(HeaderGet(headers, proxyIPHeaders[k]), ",")

\* getScheme lower-cases its own (still empty) result variable, not the
\* header value it found: `scheme = strings.ToLower(scheme)`.
getScheme(headers) ==
    LET scheme == <<>>
        k == FirstPresent(headers, schemeHeaders)
    IN  IF k = 0 THEN scheme
        ELSE ToLower(scheme)

\* the request fields trustProxy may rewrite
Origin(r) == [RemoteAddr |-> r.RemoteAddr, Host |-> r.Host, Scheme |-> r.Scheme]

\* the variant of the rewrite that assigns the three fields unconditionally
rewriteOriginAlways(r) ==
    [r EXCEPT !.RemoteAddr = getRealIP(r.Header),
              !.Host = HeaderGet(r.Header, xForwardedHost),
              !.Scheme = getScheme(r.Header)]

\* trustProxy, the trusted branch: each field is assigned only from a
\* non-empty source
rewriteOrigin(r) ==
    LET realIP == getRealIP(r.Header)
        host == HeaderGet(r.Header, xForwardedHost)
        scheme == getScheme(r.Header)
    IN  [r EXCEPT !.RemoteAddr = IF realIP # <<>> THEN realIP ELSE @,
                  !.Host = IF host # <<>> THEN host ELSE @,
                  !.Scheme = IF scheme # <<>> THEN scheme ELSE @]

\* the variant of trustProxy that rewrites before looking at the verdict
trustProxyOutcomeNoGate(r) ==
    LET t == isTrustedIP(r.RemoteAddr, parsedTrustedIPs)
    IN  IF t.err THEN [verdict |-> "error", next |-> FALSE, req |-> r]
        ELSE [verdict |-> IF t.trusted THEN "trusted" ELSE "untrusted",
              next |-> TRUE, req |-> rewriteOrigin(r)]

\* trustProxy as a function of the request: the verdict, whether the next
\* handler is called, and the request it is called with
trustProxyOutcome(r) ==
    LET t == isTrustedIP(r.RemoteAddr, parsedTrustedIPs)
    IN  IF t.err THEN [verdict |-> "error", next |-> FALSE, req |-> r]
        ELSE IF ~t.trusted THEN [verdict |-> "untrusted", next |-> TRUE, req |-> r]
        ELSE [verdict |-> "trusted", next |-> TRUE, req |-> rewriteOrigin(r)]

\* ------------------------------------------------------------------------
\* Request identifiers (github.com/google/uuid as used by the logging
\* middleware): Parse accepts the canonical form, the urn:uuid: form, the
\* braced form and 32 bare hex digits, in either letter case; String always
\* prints the canonical lower-case hyphenated form.
\* ------------------------------------------------------------------------

UrnPrefix == <<"u", "r", "n", ":", "u", "u", "i", "d", ":">>

\* offsets (1-based) of the 16 hex pairs in the 36-character form
UUIDPairAt == <<1, 3, 5, 7, 10, 12, 15, 17, 20, 22, 25, 27, 29, 31, 33, 35>>

uuidParse36(s) ==
    IF s[9] # "-" \/ s[14] # "-" \/ s[19] # "-" \/ s[24] # "-" THEN Fail
    ELSE IF \E k \in 1..16 : ~IsHexChar(s[UUIDPairAt[k]]) \/ ~IsHexChar(s[UUIDPairAt[k] + 1]) THEN Fail
    ELSE [ok |-> TRUE,
          id |-> [n \in 1..32 |->
                    HexCharValue(s[UUIDPairAt[(n + 1) \div 2] + ((n + 1) % 2)])]]

uuidParse(s) ==
    IF Len(s) = 36 THEN uuidParse36(s)
    ELSE IF Len(s) = 45
    THEN IF ToLower(Slice(s, 1, 9)) # UrnPrefix THEN Fail ELSE uuidParse36(Slice(s, 10, 45))
    ELSE IF Len(s) = 38 THEN uuidParse36(Slice(s, 2, 37))
    ELSE IF Len(s) = 32
    THEN IF \E k \in 1..32 : ~IsHexChar(s[k]) THEN Fail
         ELSE [ok |-> TRUE, id |-> [n \in 1..32 |-> HexCharValue(s[n])]]
    ELSE Fail

\* UUID.String
uuidString(id) ==
    LET hex(from, to) == [k \in 1..(to - from + 1) |-> HexLower[id[from + k - 1] + 1]]
    IN  hex(1, 8) \o <<"-">> \o hex(9, 12) \o <<"-">> \o hex(13, 16) \o <<"-">>
        \o hex(17, 20) \o <<"-">> \o hex(21, 32)

\* the variant of the request id derivation that logs the header as sent
deriveReqIDVerbatim(header, fresh) ==
    IF header # <<>> THEN header ELSE fresh

\* the request id of the logging middleware: the parsed inbound
\* x-request-id re-printed, else a newly generated one
deriveReqID(header, fresh) ==
    LET parsed == uuidParse(header)
    IN  IF parsed.ok THEN uuidString(parsed.id) ELSE fresh

\* ------------------------------------------------------------------------
\* Bounds and inputs
\* ------------------------------------------------------------------------

\* requests the server handles concurrently
NumReqs == 2

\* forwarding headers one request carries (trust-resolution inputs)
MaxHdrs == 2

Reqs == 1..NumReqs

RECURSIVE Rep(_, _)
Rep(c, n) == IF n = 0 THEN <<>> ELSE <<c>> \o Rep(c, n - 1)

\* peer addresses as the transport reports them
AddrLoopbackPort == <<"1", "2", "7", ".", "0", ".", "0", ".", "1", ":", "8", "0">>
AddrPrivateBare == <<"1", "0", ".", "1", ".", "2", ".", "3">>
AddrPrivateEdge == <<"1", "7", "2", ".", "3", "1", ".", "9", ".", "9", ":", "8", "0">>
AddrPublicEdge == <<"1", "7", "2", ".", "3", "2", ".", "0", ".", "1", ":", "8", "0">>
AddrPublicPort == <<"8", ".", "8", ".", "8", ".", "8", ":", "5", "3">>
AddrV6LoopbackPort == <<"[", ":", ":", "1", "]", ":", "8", "0">>
AddrV6UlaBare == <<"f", "d", "1", "2", ":", ":", "7">>
AddrV6PublicPort == <<"[", "2", "0", "0", "1", ":", "d", "b", "8", ":", ":", "1", "]", ":", "8", "0">>
AddrV6PublicBare == <<":", ":", "2">>
AddrBadName == <<"b", "o", "g", "u", "s", ":", "8", "0">>
AddrBadOctet == <<"2", "5", "6", ".", "0", ".", "0", ".", "1", ":", "8", "0">>
AddrEmpty == <<>>

TrustAddrs ==
    {AddrLoopbackPort, AddrPrivateBare, AddrPrivateEdge, AddrPublicEdge, AddrPublicPort,
     AddrV6LoopbackPort, AddrV6UlaBare, AddrV6PublicPort, AddrV6PublicBare,
     AddrBadName, AddrBadOctet, AddrEmpty}

\* forwarding header values: a single address, a chained list, a list whose
\* first token is empty
ValPlain == <<"9", ".", "9", ".", "9", ".", "9">>
ValList == <<"2", "0", "3", ".", "0", ".", "1", "1", "3", ".", "5", ",", " ",
             "7", "0", ".", "4", "1", ".", "3", ".", "1", "8">>
ValListFirst == <<"2", "0", "3", ".", "0", ".", "1", "1", "3", ".", "5">>
ValLeadComma == <<",", "7", ".", "7", ".", "7", ".", "7">>
ValShort == <<"6", ".", "6", ".", "6", ".", "6", ",", "x">>

SchemeUpper == <<"H", "T", "T", "P", "S">>
SchemeLower == <<"h", "t", "t", "p">>

HostOrig == <<"s", "v", "c">>
HostFwd == <<"a", ".", "i", "o">>

ForwardingHeaders == proxyIPHeaders \o schemeHeaders \o <<xForwardedHost>>

HeaderNames == Range(ForwardingHeaders) \cup {xRequestID}

NoHeaders == [h \in HeaderNames |-> <<>>]

HeaderValues(h) ==
    IF h = "X-Forwarded-For" THEN {ValPlain, ValList, ValLeadComma}
    ELSE IF h \in Range(proxyIPHeaders) THEN {ValPlain, ValShort, ValLeadComma}
    ELSE IF h \in Range(schemeHeaders) THEN {SchemeUpper, SchemeLower}
    ELSE {HostFwd}

\* header maps that set at most n of the first k forwarding headers
RECURSIVE HeaderMaps(_, _)
HeaderMaps(k, n) ==
    IF k = 0 THEN {NoHeaders}
    ELSE HeaderMaps(k - 1, n)
         \cup (IF n = 0 THEN {}
               ELSE {[m EXCEPT ![ForwardingHeaders[k]] = v] :
                        m \in HeaderMaps(k - 1, n - 1), v \in HeaderValues(ForwardingHeaders[k])})

TrustInputs ==
    {[RemoteAddr |-> a, Host |-> HostOrig, Scheme |-> sc, Header |-> h, Path |-> "/health"] :
        a \in TrustAddrs, sc \in {<<>>, SchemeLower},
        h \in HeaderMaps(Len(ForwardingHeaders), MaxHdrs)}

\* x-request-id values a client may send
IDCanonical == Rep("a", 8) \o <<"-">> \o Rep("b", 4) \o <<"-", "4">> \o Rep("c", 3)
               \o <<"-", "8">> \o Rep("d", 3) \o <<"-">> \o Rep("e", 12)
IDUpper == Rep("A", 8) \o <<"-">> \o Rep("B", 4) \o <<"-", "4">> \o Rep("C", 3)
           \o <<"-", "8">> \o Rep("D", 3) \o <<"-">> \o Rep("E", 12)
IDBare == Rep("1", 12) \o <<"4">> \o Rep("2", 3) \o <<"8">> \o Rep("3", 15)
IDUrn == UrnPrefix \o IDCanonical
IDBraced == <<"{">> \o IDCanonical \o <<"}">>
IDInvalid == <<"n", "o", "p", "e">>
IDBadHex == Rep("g", 8) \o <<"-">> \o Rep("b", 4) \o <<"-", "4">> \o Rep("c", 3)
            \o <<"-", "8">> \o Rep("d", 3) \o <<"-">> \o Rep("e", 12)

RequestIDs == {<<>>, IDCanonical, IDUpper, IDBare, IDUrn, IDBraced, IDInvalid, IDBadHex}

\* the k-th identifier uuid.NewString hands out
GenID(k) == Rep("0", 8) \o <<"-">> \o Rep("0", 4) \o <<"-", "4">> \o Rep("0", 3)
            \o <<"-", "8">> \o Rep("0", 3) \o <<"-">> \o Rep("0", 11) \o <<Digits[k + 1]>>

PipeAddrs == {AddrLoopbackPort, AddrPublicPort, AddrBadName, AddrBadOctet}

\* a request as the server accepts it: URL.Scheme is empty for an
\* origin-form request target
Request(a, p, id, xff) ==
    [RemoteAddr |-> a, Host |-> HostOrig, Scheme |-> <<>>, Path |-> p,
     Header |-> [NoHeaders EXCEPT ![xRequestID] = id, !["X-Forwarded-For"] = xff]]

\* every peer kind; every kind of x-request-id on two routes; a chained
\* X-Forwarded-For from a trusted and from an untrusted peer
PipeInputs ==
    {Request(a, "/hi", <<>>, <<>>) : a \in PipeAddrs}
    \cup {Request(AddrLoopbackPort, p, id, <<>>) : p \in {"/hi", "/panic"}, id \in RequestIDs}
    \cup {Request(a, p, <<>>, ValList) : a \in {AddrLoopbackPort, AddrPublicPort},
                                         p \in {"/health", "/panic"}}

\* ------------------------------------------------------------------------
\* Configuration: newConfig and getEnv
\* ------------------------------------------------------------------------

\* the environment variables newConfig looks up, in its order
SettingList == <<"PORT", "HEALTH_ENDPOINT", "LOG_LEVEL", "SHUTDOWN_TIMEOUT_DURATION",
                 "SERVICE_NAME", "SERVICE_VERSION", "OTEL_ENABLED",
                 "OTEL_EXPORTER_OTLP_ENDPOINT", "MAX_ALLOWED_REQUEST_BYTES">>

Settings == Range(SettingList)

\* os.LookupEnv finds nothing
Unset == [set |-> FALSE]

NotLoaded == [called |-> FALSE]

\* os.LookupEnv finds the variable, with this value
SetTo(value) == [set |-> TRUE, value |-> value]

\* a nil error, and the error a parser returns
NoError == [isNil |-> TRUE]

ParseError(text) == [isNil |-> FALSE, text |-> text]

Parsed(v) == [value |-> v, err |-> NoError]

Failed(zero, text) == [value |-> zero, err |-> ParseError(text)]

IsDigits(s) == s # <<>> /\ \A i \in DOMAIN s : s[i] \in Range(Digits)

\* strconv.Atoi, for values that fit an int
Atoi(s) ==
    LET signed == s # <<>> /\ s[1] \in {"+", "-"}
        digits == IF signed THEN Tail(s) ELSE s
    IN  IF ~IsDigits(digits) THEN Failed(0, "invalid syntax")
        ELSE Parsed(IF signed /\ s[1] = "-" THEN 0 - DecValue(digits) ELSE DecValue(digits))

parseString(s) == Parsed(s)

\* position of the first "+" or "-" (strings.IndexAny + 1), 0 when absent
IndexSign(s) ==
    IF \E i \in DOMAIN s : s[i] \in {"+", "-"}
    THEN CHOOSE i \in DOMAIN s : s[i] \in {"+", "-"} /\ \A j \in 1..(i - 1) : s[j] \notin {"+", "-"}
    ELSE 0

\* slog.LevelDebug, LevelInfo, LevelWarn, LevelError by name
LevelNames ==
    ( <<"d", "e", "b", "u", "g">> :> (0 - 4) ) @@ ( <<"i", "n", "f", "o">> :> 0 )
    @@ ( <<"w", "a", "r", "n">> :> 4 ) @@ ( <<"e", "r", "r", "o", "r">> :> 8 )

\* parseLogLevel: slog.LevelVar.UnmarshalText, a level name in any letter
\* case with an optional signed offset
parseLogLevel(s) ==
    LET i == IndexSign(s)
        name == IF i = 0 THEN s ELSE Slice(s, 1, i - 1)
        offset == IF i = 0 THEN Parsed(0) ELSE Atoi(Slice(s, i, Len(s)))
    IN  IF ~offset.err.isNil THEN Failed(0, "invalid syntax")
        ELSE IF ToLower(name) \notin DOMAIN LevelNames THEN Failed(0, "unknown name")
        ELSE Parsed(LevelNames[ToLower(name)] + offset.value)

\* the units of time.ParseDuration from the millisecond up, in milliseconds
DurationUnits ==
    ( <<"m", "s">> :> 1 ) @@ ( <<"s">> :> 1000 ) @@ ( <<"m">> :> 60000 ) @@ ( <<"h">> :> 3600000 )

\* number of characters at the head of s that satisfy / do not satisfy
\* being a digit
RECURSIVE LeadingDigits(_)
LeadingDigits(s) ==
    IF s = <<>> \/ s[1] \notin Range(Digits) THEN 0 ELSE 1 + LeadingDigits(Tail(s))

RECURSIVE LeadingNonDigits(_)
LeadingNonDigits(s) ==
    IF s = <<>> \/ s[1] \in Range(Digits) THEN 0 ELSE 1 + LeadingNonDigits(Tail(s))

\* the groups <number><unit> of a duration, summed
RECURSIVE DurationGroups(_)
DurationGroups(s) ==
    IF s = <<>> THEN Parsed(0)
    ELSE LET nd == LeadingDigits(s)
             nu == LeadingNonDigits(Slice(s, nd + 1, Len(s)))
             unit == Slice(s, nd + 1, nd + nu)
             rest == DurationGroups(Slice(s, nd + nu + 1, Len(s)))
         IN  IF nd = 0 THEN Failed(0, "invalid duration")
             ELSE IF nu = 0 THEN Failed(0, "missing unit in duration")
             ELSE IF unit \notin DOMAIN DurationUnits THEN Failed(0, "unknown unit in duration")
             ELSE IF ~rest.err.isNil THEN rest
             ELSE Parsed(DecValue(Slice(s, 1, nd)) * DurationUnits[unit] + rest.value)

\* parseDuration: time.ParseDuration, for values without a fraction and
\* units no finer than the millisecond; the result is in milliseconds
parseDuration(s) ==
    LET signed == s # <<>> /\ s[1] \in {"+", "-"}
        unsigned == IF signed THEN Tail(s) ELSE s
        groups == DurationGroups(unsigned)
    IN  IF unsigned = <<"0">> THEN Parsed(0)
        ELSE IF unsigned = <<>> THEN Failed(0, "invalid duration")
        ELSE IF ~groups.err.isNil THEN groups
        ELSE Parsed(IF signed /\ s[1] = "-" THEN 0 - groups.value ELSE groups.value)

\* strconv.ParseBool
ParseBool(s) ==
    IF s \in {<<"1">>, <<"t">>, <<"T">>, <<"T", "R", "U", "E">>, <<"t", "r", "u", "e">>, <<"T", "r", "u", "e">>}
    THEN Parsed(TRUE)
    ELSE IF s \in {<<"0">>, <<"f">>, <<"F">>, <<"F", "A", "L", "S", "E">>, <<"f", "a", "l", "s", "e">>,
                    <<"F", "a", "l", "s", "e">>}
    THEN Parsed(FALSE)
    ELSE Failed(FALSE, "invalid syntax")

IsLetter(c) == c \in Range(LowerLetters) \cup Range(UpperLetters)

\* net/url getScheme: the scheme ends at the first ":", which must not
\* come first; any character that cannot be in a scheme means there is none
RECURSIVE getSchemeAt(_, _)
getSchemeAt(s, i) ==
    IF i > Len(s) THEN [ok |-> TRUE, scheme |-> <<>>, rest |-> s]
    ELSE IF IsLetter(s[i]) THEN getSchemeAt(s, i + 1)
    ELSE IF s[i] \in Range(Digits) \cup {"+", "-", "."}
         THEN IF i = 1 THEN [ok |-> TRUE, scheme |-> <<>>, rest |-> s] ELSE getSchemeAt(s, i + 1)
    ELSE IF s[i] = ":"
         THEN IF i = 1 THEN [ok |-> FALSE]
              ELSE [ok |-> TRUE, scheme |-> Slice(s, 1, i - 1), rest |-> Slice(s, i + 1, Len(s))]
    ELSE [ok |-> TRUE, scheme |-> <<>>, rest |-> s]

NilURL == [isNil |-> TRUE]

\* url.Parse, for values without "%", "?", "#", "@", "[" and control
\* characters: a scheme, then either //host[:port]/path or a path
urlParse(s) ==
    LET sch == getSchemeAt(s, 1)
        rest == sch.rest
        slash == IndexByte(rest, "/")
        segment == IF slash = 0 THEN rest ELSE Slice(rest, 1, slash - 1)
        hasAuthority == Len(rest) >= 2 /\ rest[1] = "/" /\ rest[2] = "/"
        afterSlashes == Slice(rest, 3, Len(rest))
        end == IndexByte(afterSlashes, "/")
        authority == IF end = 0 THEN afterSlashes ELSE Slice(afterSlashes, 1, end - 1)
        colon == LastIndexByte(authority, ":")
        port == IF colon = 0 THEN <<>> ELSE Slice(authority, colon + 1, Len(authority))
    IN  IF ~sch.ok THEN Failed(NilURL, "missing protocol scheme")
        ELSE IF sch.scheme = <<>> /\ ":" \in Range(segment)
        THEN Failed(NilURL, "first path segment in URL cannot contain colon")
        ELSE IF hasAuthority /\ port # <<>> /\ ~IsDigits(port)
        THEN Failed(NilURL, "invalid port")
        ELSE Parsed([isNil |-> FALSE, raw |-> s])

\* the decimal multipliers of units.FromHumanSize, as powers of 1000
SizeUnits == [c \in {"k", "K", "m", "M", "g", "G", "t", "T", "p", "P"} |->
                CASE c \in {"k", "K"} -> 1 [] c \in {"m", "M"} -> 2 [] c \in {"g", "G"} -> 3
                  [] c \in {"t", "T"} -> 4 [] c \in {"p", "P"} -> 5]

RECURSIVE Pow1000(_)
Pow1000(n) == IF n = 0 THEN 1 ELSE 1000 * Pow1000(n - 1)

\* s without its first character when that is one of cs
DropOne(s, cs) == IF s # <<>> /\ s[1] \in cs THEN Tail(s) ELSE s

\* units.FromHumanSize, for values without a fraction: digits, an optional
\* space, an optional unit letter, an optional "i", an optional "b"
FromHumanSize(s) ==
    LET nd == LeadingDigits(s)
        afterSpace == DropOne(Slice(s, nd + 1, Len(s)), {" "})
        unit == IF afterSpace # <<>> /\ afterSpace[1] \in DOMAIN SizeUnits THEN SizeUnits[afterSpace[1]] ELSE 0
        afterUnit == DropOne(afterSpace, DOMAIN SizeUnits)
        afterB == DropOne(DropOne(afterUnit, {"i", "I"}), {"b", "B"})
    IN  IF nd = 0 \/ afterB # <<>> THEN Failed(0 - 1, "invalid size")
        ELSE Parsed(DecValue(Slice(s, 1, nd)) * Pow1000(unit))

\* the parser newConfig passes to getEnv for each variable
ParserOf ==
    [PORT |-> "strconv.Atoi", HEALTH_ENDPOINT |-> "parseString", LOG_LEVEL |-> "parseLogLevel",
     SHUTDOWN_TIMEOUT_DURATION |-> "parseDuration", SERVICE_NAME |-> "parseString",
     SERVICE_VERSION |-> "parseString", OTEL_ENABLED |-> "strconv.ParseBool",
     OTEL_EXPORTER_OTLP_ENDPOINT |-> "url.Parse", MAX_ALLOWED_REQUEST_BYTES |-> "units.FromHumanSize"]

Parse(parser, value) ==
    CASE parser = "strconv.Atoi" -> Atoi(value)
      [] parser = "parseString" -> parseString(value)
      [] parser = "parseLogLevel" -> parseLogLevel(value)
      [] parser = "parseDuration" -> parseDuration(value)
      [] parser = "strconv.ParseBool" -> ParseBool(value)
      [] parser = "url.Parse" -> urlParse(value)
      [] parser = "units.FromHumanSize" -> FromHumanSize(value)

\* the default newConfig passes to getEnv for each variable (the shutdown
\* timeout in milliseconds)
DefaultOf ==
    [PORT |-> 3000, HEALTH_ENDPOINT |-> <<"/", "h", "e", "a", "l", "t", "h">>, LOG_LEVEL |-> 0,
     SHUTDOWN_TIMEOUT_DURATION |-> 15 * 1000, SERVICE_NAME |-> <<"g", "o", "-", "c", "h", "i">>,
     SERVICE_VERSION |-> <<"v", "1", ".", "0", ".", "0">>, OTEL_ENABLED |-> FALSE,
     OTEL_EXPORTER_OTLP_ENDPOINT |-> NilURL, MAX_ALLOWED_REQUEST_BYTES |-> 1000 * 1000 * 10]

\* errWrap: nil stays nil, any other error is wrapped under the message
errWrap(err, msg) == IF err.isNil THEN NoError ELSE [isNil |-> FALSE, msg |-> msg, wraps |-> err]

\* errWrapf(err, "parsing env %s", key)
errWrapf(err, format, key) == errWrap(err, <<format, key>>)

\* getEnv: the default when the variable is not set, otherwise what the
\* parser makes of its value, with the parser's error wrapped
getEnv(env, key, parser, defaultValue) ==
    IF env[key].set
    THEN LET parsed == Parse(parser, env[key].value)
         IN  [value |-> parsed.value, err |-> errWrapf(parsed.err, "parsing env %s", key)]
    ELSE [value |-> defaultValue, err |-> NoError]

NotNil(err) == ~err.isNil

\* errors.Join: nil when there is nothing to join
Join(errs) ==
    IF SelectSeq(errs, NotNil) = <<>> THEN NoError
    ELSE [isNil |-> FALSE, joined |-> SelectSeq(errs, NotNil)]

NoConfig == [isNil |-> TRUE]

\* the nine getEnv calls of newConfig, in order
Lookups(env) == [i \in DOMAIN SettingList |->
                    getEnv(env, SettingList[i], ParserOf[SettingList[i]], DefaultOf[SettingList[i]])]

\* the variant of newConfig that returns at the first error
newConfigFailFast(env) ==
    LET got == Lookups(env)
        errs == SelectSeq([i \in DOMAIN got |-> got[i].err], NotNil)
    IN  IF Len(errs) > 0
        THEN [called |-> TRUE, cfg |-> NoConfig, err |-> Join(<<Head(errs)>>)]
        ELSE [called |-> TRUE,
              cfg |-> [isNil |-> FALSE, port |-> got[1].value, healthEndpoint |-> got[2].value,
                       logLevel |-> got[3].value, shutdownTimeout |-> got[4].value,
                       serviceName |-> got[5].value, serviceVersion |-> got[6].value,
                       otelEnabled |-> got[7].value, otelExporterOTLPEndpoint |-> got[8].value,
                       maxAllowedRequestBytes |-> got[9].value],
              err |-> NoError]

\* newConfig: every variable is looked up and parsed, each error appended
\* to errs; with any error the result is (nil, errors.Join(errs...)),
\* otherwise the config of the nine values
newConfig(env) ==
    LET got == Lookups(env)
        errs == SelectSeq([i \in DOMAIN got |-> got[i].err], NotNil)
    IN  IF Len(errs) > 0
        THEN [called |-> TRUE, cfg |-> NoConfig, err |-> Join(errs)]
        ELSE [called |-> TRUE,
              cfg |-> [isNil |-> FALSE, port |-> got[1].value, healthEndpoint |-> got[2].value,
                       logLevel |-> got[3].value, shutdownTimeout |-> got[4].value,
                       serviceName |-> got[5].value, serviceVersion |-> got[6].value,
                       otelEnabled |-> got[7].value, otelExporterOTLPEndpoint |-> got[8].value,
                       maxAllowedRequestBytes |-> got[9].value],
              err |-> NoError]

\* values the operator may give each variable
EnvPort == <<"8", "0", "8", "0">>
EnvPortBad == <<"8", "0", "a">>
EnvHealth == <<"/", "h", "z">>
EnvLevel == <<"D", "e", "b", "u", "g">>
EnvLevelOffset == <<"w", "a", "r", "n", "+", "2">>
EnvLevelBad == <<"l", "o", "u", "d">>
EnvTimeout == <<"1", "m", "3", "0", "s">>
EnvTimeoutBad == <<"1", "5">>
EnvName == <<"a", "p", "i">>
EnvVersion == <<"v", "2">>
EnvOtel == <<"T", "R", "U", "E">>
EnvOtelBad == <<"y", "e", "s">>
EnvEndpoint == <<"h", "t", "t", "p", ":", "/", "/", "j", ":", "4", "3", "1", "8">>
EnvEndpointBad == <<":", "4", "3", "1", "8">>
EnvMaxBytes == <<"2", " ", "k", "b">>
EnvMaxBytesBad == <<"b", "i", "g">>

\* per variable: the values it may be set to
SampleValues ==
    [PORT |-> {EnvPort, EnvPortBad, <<>>}, HEALTH_ENDPOINT |-> {EnvHealth, <<>>},
     LOG_LEVEL |-> {EnvLevel, EnvLevelOffset, EnvLevelBad},
     SHUTDOWN_TIMEOUT_DURATION |-> {EnvTimeout, EnvTimeoutBad},
     SERVICE_NAME |-> {EnvName}, SERVICE_VERSION |-> {EnvVersion},
     OTEL_ENABLED |-> {EnvOtel, EnvOtelBad},
     OTEL_EXPORTER_OTLP_ENDPOINT |-> {EnvEndpoint, EnvEndpointBad},
     MAX_ALLOWED_REQUEST_BYTES |-> {EnvMaxBytes, EnvMaxBytesBad}]

Choices(k) == {Unset} \cup {SetTo(v) : v \in SampleValues[k]}

\* every environment: each variable unset or set to one of its values
Environments ==
    [PORT : Choices("PORT"), HEALTH_ENDPOINT : Choices("HEALTH_ENDPOINT"),
     LOG_LEVEL : Choices("LOG_LEVEL"),
     SHUTDOWN_TIMEOUT_DURATION : Choices("SHUTDOWN_TIMEOUT_DURATION"),
     SERVICE_NAME : Choices("SERVICE_NAME"), SERVICE_VERSION : Choices("SERVICE_VERSION"),
     OTEL_ENABLED : Choices("OTEL_ENABLED"),
     OTEL_EXPORTER_OTLP_ENDPOINT : Choices("OTEL_EXPORTER_OTLP_ENDPOINT"),
     MAX_ALLOWED_REQUEST_BYTES : Choices("MAX_ALLOWED_REQUEST_BYTES")]

\* ------------------------------------------------------------------------
\* State
\* ------------------------------------------------------------------------

VARIABLES
    pc,         \* per request: the stage of the middleware chain it is in
    req,        \* per request: the live *http.Request (the fields the chain touches)
    arrival,    \* per request: RemoteAddr, Host, URL.Scheme as accepted (history)
    verdict,    \* per request: what isTrustedIP returned inside trustProxy (history)
    handed,     \* per request: the origin fields trustProxy passed to next.ServeHTTP (history)
    resp,       \* per request: the connection's http.ResponseWriter
    ww,         \* per request: the WrapResponseWriter of the logging middleware
    traceID,    \* per request: trace id of the span in the request context
    reqID,      \* per request: reqId bound into the request logger
    entry,      \* per request: the log entry the Recoverer finds in its request
    panicking,  \* per request: the value of the panic that is unwinding, if any
    log,        \* records written to the process-wide logger, in order
    generated,  \* number of identifiers uuid.NewString has handed out
    mainPC,     \* position of main()
    lisPC,      \* position of the goroutine running srv.ListenAndServe
    exitCode,   \* process exit status, Running while the process lives
    inShutdown, \* srv.Shutdown has been called
    sigChan,    \* signals buffered in the `shutdown` channel (capacity 1)
    sigsSent,   \* SIGINT/SIGTERM delivered to the process so far
    active,     \* connections with a handler still running
    expired,    \* the shutdown context's deadline has passed
    otelCalls,  \* invocations of otelShutdown
    body,       \* per request: the body stream the server hands over as r.Body
    rc,         \* per request: the byteReadCloser around that stream
    maxBytesReader, \* per request: the http.MaxBytesReader installed as r.Body
    delivered,  \* per request: body bytes the handler's reads returned (history)
    lastRead,   \* per request: what the handler's latest Read returned (history)
    stages,     \* per request: the stages of the chain it has run, in order (history)
    environ,    \* the process environment newConfig looks up
    config      \* what newConfig returned

bodyVars == <<body, rc, maxBytesReader, delivered, lastRead>>

confVars == <<environ, config>>

pipeVars == <<pc, req, arrival, verdict, handed, resp, ww, traceID, reqID, entry, panicking, generated,
              bodyVars, stages, confVars>>

lifeVars == <<mainPC, lisPC, exitCode, inShutdown, sigChan, sigsSent, active, expired, otelCalls>>

vars == <<pipeVars, log, lifeVars>>

Running == "running"

ZeroTraceID == "00000000000000000000000000000000"

TraceIDs == {ZeroTraceID, "4bf92f3577b34da6a3ce929d0e0e4736"}

NoRequest == [RemoteAddr |-> <<>>, Host |-> <<>>, Scheme |-> <<>>, Header |-> NoHeaders, Path |-> ""]

NoOrigin == [RemoteAddr |-> <<>>, Host |-> <<>>, Scheme |-> <<>>]

\* the connection's response before anything is written; dropped: the
\* server closed the connection without a response
NewResponse == [wroteHeader |-> FALSE, status |-> 0, dropped |-> FALSE]

\* middleware.NewWrapResponseWriter(w, 0): status code and byte count as the
\* handler's writes pass through
NewWriter == [wroteHeader |-> FALSE, status |-> 0, bytes |-> 0]

NoEntry == [set |-> FALSE, reqId |-> <<>>, traceId |-> ""]

\* ------------------------------------------------------------------------
\* The request body: raw stream <- byteReadCloser <- http.MaxBytesReader
\* ------------------------------------------------------------------------

\* stands for cfg.maxAllowedRequestBytes
maxAllowedRequestBytes == 3

\* longest request body sent
MaxBody == 5

\* largest buffer a handler passes to Read
MaxRead == 3

Nil == "nil"

EOF == "EOF"

\* the client went away in the middle of the body
ErrUnexpectedEOF == "unexpected EOF"

\* the error of http.MaxBytesReader
ErrTooLarge == "http: request body too large"

\* a body of size bytes, none read yet
Body(size) == [size |-> size, left |-> size]

Bodies == {Body(n) : n \in 0..MaxBody}

Min(a, b) == IF a < b THEN a ELSE b

\* what one Read of the server's body stream into a buffer of k bytes can
\* return: some of the bytes that are left, io.EOF with or after the last
\* one, or the stream breaking after any number of them
RawReads(b, k) ==
    IF b.left = 0
    THEN {[n |-> 0, err |-> EOF]}
    ELSE {[n |-> n, err |-> Nil] : n \in 1..Min(k, b.left)}
         \cup {[n |-> n, err |-> EOF] : n \in {m \in {b.left} : m <= k}}
         \cup {[n |-> n, err |-> ErrUnexpectedEOF] : n \in 0..Min(k, b.left - 1)}

newByteReadCloser == [n |-> 0]

\* the variant of the counting reader that adds the size of the buffer
byteReadCloserReadLen(br, k, under) ==
    [reader |-> [n |-> br.n + k], n |-> under.n, err |-> under.err]

\* byteReadCloser.Read(p), len(p) = k, where br.rc.Read(p) returned under
byteReadCloserRead(br, k, under) ==
    [reader |-> [n |-> br.n + under.n], n |-> under.n, err |-> under.err]

\* http.MaxBytesReader(w, rc, limit): bytes still allowed, sticky error
MaxBytesReader(limit) == [n |-> limit, err |-> Nil]

\* the buffer MaxBytesReader passes down: one byte more than is allowed
\* is enough to tell whether the body goes past the limit
Asked(l, k) == IF k - 1 > l.n THEN l.n + 1 ELSE k

\* the variant of MaxBytesReader that passes every read through
maxBytesReadUnbounded(l, under) ==
    [reader |-> [l EXCEPT !.err = under.err], n |-> under.n, err |-> under.err]

\* maxBytesReader.Read after the wrapped reader returned under: within the
\* allowance the result is passed on and the error kept; past it the
\* allowed bytes are returned with the too-large error, which sticks
maxBytesRead(l, under) ==
    IF under.n <= l.n
    THEN [reader |-> [n |-> l.n - under.n, err |-> under.err], n |-> under.n, err |-> under.err]
    ELSE [reader |-> [n |-> 0, err |-> ErrTooLarge], n |-> l.n, err |-> ErrTooLarge]

NoRead == [called |-> FALSE, n |-> 0, err |-> Nil, under |-> Nil]

InitChain ==
    /\ pc = [r \in Reqs |-> "idle"]
    /\ req = [r \in Reqs |-> NoRequest]
    /\ arrival = [r \in Reqs |-> NoOrigin]
    /\ verdict = [r \in Reqs |-> "none"]
    /\ handed = [r \in Reqs |-> [called |-> FALSE, origin |-> NoOrigin]]
    /\ resp = [r \in Reqs |-> NewResponse]
    /\ ww = [r \in Reqs |-> NewWriter]
    /\ traceID = [r \in Reqs |-> ""]
    /\ reqID = [r \in Reqs |-> <<>>]
    /\ entry = [r \in Reqs |-> NoEntry]
    /\ panicking = [r \in Reqs |-> ""]
    /\ generated = 0
    /\ log = <<>>
    /\ stages = [r \in Reqs |-> <<>>]
    /\ rc = [r \in Reqs |-> newByteReadCloser]
    /\ maxBytesReader = [r \in Reqs |-> MaxBytesReader(maxAllowedRequestBytes)]
    /\ delivered = [r \in Reqs |-> 0]
    /\ lastRead = [r \in Reqs |-> NoRead]

\* requests without a body, the environment not yet consulted
InitPipe ==
    /\ InitChain
    /\ body = [r \in Reqs |-> Body(0)]
    /\ environ = [k \in Settings |-> Unset]
    /\ config = NotLoaded

\* main() blocked in `sig := <-shutdown`, the listener accepting
InitServing ==
    /\ mainPC = "wait"
    /\ lisPC = "serving"
    /\ exitCode = Running
    /\ inShutdown = FALSE
    /\ sigChan = 0
    /\ sigsSent = 0
    /\ active = 0
    /\ expired = FALSE
    /\ otelCalls = 0

\* ------------------------------------------------------------------------
\* The middleware chain: Recoverer -> trustProxy -> otelhttp -> request
\* logging -> route handler
\* ------------------------------------------------------------------------

\* http.ResponseWriter.WriteHeader: only the first call sets the status
WriteHeader(w, code) ==
    IF w.wroteHeader THEN w ELSE [w EXCEPT !.wroteHeader = TRUE, !.status = code]

\* Write of n bytes through the wrapped writer: an implicit
\* WriteHeader(200) first, then the bytes are counted
Write(w, n) == [WriteHeader(w, 200) EXCEPT !.bytes = @ + n]

\* the request runs the stage (noted once, however many steps it takes)
Enter(r, stage) ==
    [stages EXCEPT ![r] = IF @ # <<>> /\ @[Len(@)] = stage THEN @ ELSE Append(@, stage)]

\* the server hands the request to mux.ServeHTTP; Recoverer installs its
\* deferred recover and calls the next handler
Accept(r, inputs) ==
    /\ exitCode = Running
    /\ lisPC = "serving"
    /\ ~inShutdown
    /\ pc[r] = "idle"
    /\ \E in \in inputs :
        /\ req' = [req EXCEPT ![r] = in]
        /\ arrival' = [arrival EXCEPT ![r] = Origin(in)]
    /\ pc' = [pc EXCEPT ![r] = "trust"]
    /\ stages' = Enter(r, "Recoverer")
    /\ UNCHANGED <<verdict, handed, resp, ww, traceID, reqID, entry, panicking, generated, log, lifeVars, bodyVars, confVars>>

\* trustProxy: a peer address that does not parse is answered with 500 and
\* logged (http.Error sets the status and writes the error text);
\* otherwise the next handler runs, on the rewritten request when the peer
\* is trusted
TrustProxy(r) ==
    /\ exitCode = Running
    /\ pc[r] = "trust"
    /\ LET o == trustProxyOutcome(req[r])
       IN  /\ verdict' = [verdict EXCEPT ![r] = o.verdict]
           /\ IF o.next
              THEN /\ req' = [req EXCEPT ![r] = o.req]
                   /\ handed' = [handed EXCEPT ![r] = [called |-> TRUE, origin |-> Origin(o.req)]]
                   /\ pc' = [pc EXCEPT ![r] = "otel"]
                   /\ UNCHANGED <<resp, log>>
              ELSE /\ log' = Append(log, [of |-> r, lvl |-> "ERROR", msg |-> "ParseAddr failed",
                                          ip |-> req[r].RemoteAddr])
                   /\ resp' = [resp EXCEPT ![r] = WriteHeader(@, 500)]
                   /\ pc' = [pc EXCEPT ![r] = "done"]
                   /\ UNCHANGED <<req, handed>>
    /\ stages' = Enter(r, "trustProxy")
    /\ UNCHANGED <<arrival, ww, traceID, reqID, entry, panicking, generated, lifeVars, bodyVars, confVars>>

\* otelhttp.NewMiddleware: a span is put into the request context; its
\* trace id is all zeros when no tracer is recording
OtelMiddleware(r) ==
    /\ exitCode = Running
    /\ pc[r] = "otel"
    /\ \E t \in TraceIDs : traceID' = [traceID EXCEPT ![r] = t]
    /\ pc' = [pc EXCEPT ![r] = "logger"]
    /\ stages' = Enter(r, "otelhttp")
    /\ UNCHANGED <<req, arrival, verdict, handed, resp, ww, reqID, entry, panicking, generated, log, lifeVars, bodyVars, confVars>>

\* the variant of the request logging middleware that keeps one
\* byteReadCloser for the whole process and resets it for every request
RequestLoggerEnterSharedCounter(r) ==
    /\ exitCode = Running
    /\ pc[r] = "logger"
    /\ LET header == HeaderGet(req[r].Header, xRequestID)
           id == deriveReqID(header, GenID(generated + 1))
       IN  /\ reqID' = [reqID EXCEPT ![r] = id]
           /\ generated' = IF uuidParse(header).ok THEN generated ELSE generated + 1
           /\ entry' = [entry EXCEPT ![r] = [set |-> TRUE, reqId |-> id, traceId |-> traceID[r]]]
    /\ ww' = [ww EXCEPT ![r] = NewWriter]
    /\ pc' = [pc EXCEPT ![r] = "handler"]
    /\ stages' = Enter(r, "requestLogger")
    /\ rc' = [q \in Reqs |-> newByteReadCloser]
    /\ maxBytesReader' = [maxBytesReader EXCEPT ![r] = MaxBytesReader(maxAllowedRequestBytes)]
    /\ UNCHANGED <<req, arrival, verdict, handed, resp, traceID, panicking, log, lifeVars, body,
                   delivered, lastRead, confVars>>

\* request logging middleware, up to the call of the next handler: request
\* id, request logger, wrapped writer, and the overwrite of *r that makes
\* the log entry visible to the Recoverer
RequestLoggerEnter(r) ==
    /\ exitCode = Running
    /\ pc[r] = "logger"
    /\ LET header == HeaderGet(req[r].Header, xRequestID)
           id == deriveReqID(header, GenID(generated + 1))
       IN  /\ reqID' = [reqID EXCEPT ![r] = id]
           /\ generated' = IF uuidParse(header).ok THEN generated ELSE generated + 1
           /\ entry' = [entry EXCEPT ![r] = [set |-> TRUE, reqId |-> id, traceId |-> traceID[r]]]
    /\ ww' = [ww EXCEPT ![r] = NewWriter]
    /\ pc' = [pc EXCEPT ![r] = "handler"]
    /\ stages' = Enter(r, "requestLogger")
    /\ rc' = [rc EXCEPT ![r] = newByteReadCloser]
    /\ maxBytesReader' = [maxBytesReader EXCEPT ![r] = MaxBytesReader(maxAllowedRequestBytes)]
    /\ UNCHANGED <<req, arrival, verdict, handed, resp, traceID, panicking, log, lifeVars, body, delivered, lastRead, confVars>>

\* a handler calls r.Body.Read(p) with len(p) = k: MaxBytesReader returns
\* its sticky error at once, or reads through the byteReadCloser and
\* judges what came back
HandlerRead(r) ==
    /\ exitCode = Running
    /\ pc[r] = "handler"
    /\ \E k \in 1..MaxRead :
        LET l == maxBytesReader[r]
        IN  IF l.err # Nil
            THEN /\ lastRead' = [lastRead EXCEPT ![r] = [called |-> TRUE, n |-> 0, err |-> l.err, under |-> l.err]]
                 /\ UNCHANGED <<body, rc, maxBytesReader, delivered>>
            ELSE \E raw \in RawReads(body[r], Asked(l, k)) :
                    LET counted == byteReadCloserRead(rc[r], Asked(l, k), raw)
                        res == maxBytesRead(l, [n |-> counted.n, err |-> counted.err])
                    IN  /\ body' = [body EXCEPT ![r].left = @ - raw.n]
                        /\ rc' = [rc EXCEPT ![r] = counted.reader]
                        /\ maxBytesReader' = [maxBytesReader EXCEPT ![r] = res.reader]
                        /\ delivered' = [delivered EXCEPT ![r] = @ + res.n]
                        /\ lastRead' = [lastRead EXCEPT ![r] = [called |-> TRUE, n |-> res.n,
                                                               err |-> res.err, under |-> raw.err]]
    /\ stages' = Enter(r, "handler")
    /\ UNCHANGED <<pc, req, arrival, verdict, handed, resp, ww, traceID, reqID, entry, panicking,
                   generated, log, lifeVars, confVars>>

\* GET /health
HandlerHealth(r) ==
    /\ exitCode = Running
    /\ pc[r] = "handler"
    /\ req[r].Path = "/health"
    /\ ww' = [ww EXCEPT ![r] = WriteHeader(@, 200)]
    /\ resp' = [resp EXCEPT ![r] = WriteHeader(@, 200)]
    /\ pc' = [pc EXCEPT ![r] = "returned"]
    /\ stages' = Enter(r, "handler")
    /\ UNCHANGED <<req, arrival, verdict, handed, traceID, reqID, entry, panicking, generated, log, lifeVars, bodyVars, confVars>>

\* GET /hi
HandlerHi(r) ==
    /\ exitCode = Running
    /\ pc[r] = "handler"
    /\ req[r].Path = "/hi"
    /\ log' = Append(log, [of |-> r, lvl |-> "INFO", msg |-> "hi",
                           reqId |-> reqID[r], traceId |-> traceID[r]])
    /\ ww' = [ww EXCEPT ![r] = Write(@, 2)]
    /\ resp' = [resp EXCEPT ![r] = WriteHeader(@, 200)]
    /\ pc' = [pc EXCEPT ![r] = "returned"]
    /\ stages' = Enter(r, "handler")
    /\ UNCHANGED <<req, arrival, verdict, handed, traceID, reqID, entry, panicking, generated, lifeVars, bodyVars, confVars>>

\* GET /panic: the panic unwinds through the logging middleware, otelhttp
\* and trustProxy (none of which recovers) to the Recoverer's deferred call
HandlerPanic(r) ==
    /\ exitCode = Running
    /\ pc[r] = "handler"
    /\ req[r].Path = "/panic"
    /\ panicking' = [panicking EXCEPT ![r] = "testing panic recovery and logging"]
    /\ pc' = [pc EXCEPT ![r] = "unwinding"]
    /\ stages' = Enter(r, "handler")
    /\ UNCHANGED <<req, arrival, verdict, handed, resp, ww, traceID, reqID, entry, generated, log, lifeVars, bodyVars, confVars>>

\* the "Request handled" record with the raw peer address in place of
\* r.RemoteAddr
requestHandledRawPeer(r) ==
    [of |-> r, lvl |-> "INFO", msg |-> "Request handled",
     reqId |-> reqID[r], traceId |-> traceID[r],
     ip |-> arrival[r].RemoteAddr, path |-> req[r].Path,
     bw |-> ww[r].bytes, br |-> rc[r].n, status |-> ww[r].status]

\* l.Info("Request handled", ...): l carries reqId and traceId, the
\* attributes are read from the request and the two wrappers when the
\* handler has returned
requestHandled(r) ==
    [of |-> r, lvl |-> "INFO", msg |-> "Request handled",
     reqId |-> reqID[r], traceId |-> traceID[r],
     ip |-> req[r].RemoteAddr, path |-> req[r].Path,
     bw |-> ww[r].bytes, br |-> rc[r].n, status |-> ww[r].status]

\* request logging middleware, after the next handler has returned
RequestLoggerComplete(r) ==
    /\ exitCode = Running
    /\ pc[r] = "returned"
    /\ log' = Append(log, requestHandled(r))
    /\ pc' = [pc EXCEPT ![r] = "done"]
    /\ stages' = Enter(r, "completion")
    /\ UNCHANGED <<req, arrival, verdict, handed, resp, ww, traceID, reqID, entry, panicking, generated, lifeVars, bodyVars, confVars>>

\* what debug.Stack() returns inside the deferred recover
StackCapture == "goroutine stack"

\* the variant of the Recoverer that lets the panic go on to net/http,
\* which logs it and drops the connection
recovererOutcomeRethrow(r, e, w, v) ==
    [records |-> <<>>, writer |-> [w EXCEPT !.dropped = TRUE]]

\* middleware.Recoverer's deferred function, for a recovered panic value v:
\* the log entry of the request reports the panic (logEntry.Panic), or the
\* stack is pretty-printed to stderr when the request carries none; then
\* the response status is set to 500
recovererOutcome(r, e, w, v) ==
    [records |-> IF e.set
                 THEN << [of |-> r, lvl |-> "ERROR", msg |-> "panic caught",
                          reqId |-> e.reqId, traceId |-> e.traceId,
                          panic |-> v, stack |-> StackCapture] >>
                 ELSE <<>>,
     writer |-> WriteHeader(w, 500)]

Recoverer(r) ==
    /\ exitCode = Running
    /\ pc[r] = "unwinding"
    /\ LET o == recovererOutcome(r, entry[r], resp[r], panicking[r])
       IN  /\ log' = log \o o.records
           /\ resp' = [resp EXCEPT ![r] = o.writer]
    /\ panicking' = [panicking EXCEPT ![r] = ""]
    /\ pc' = [pc EXCEPT ![r] = "done"]
    /\ stages' = Enter(r, "recovered")
    /\ UNCHANGED <<req, arrival, verdict, handed, ww, traceID, reqID, entry, generated, lifeVars, bodyVars, confVars>>

Init == InitPipe /\ InitServing

\* one step of the goroutine serving request r
Serve(r) ==
    \/ Accept(r, PipeInputs)
    \/ TrustProxy(r)
    \/ OtelMiddleware(r)
    \/ RequestLoggerEnter(r)
    \/ HandlerHealth(r)
    \/ HandlerHi(r)
    \/ HandlerPanic(r)
    \/ RequestLoggerComplete(r)
    \/ Recoverer(r)

Next == \E r \in Reqs : Serve(r)

\* concurrent requests through the whole chain
Spec == Init /\ [][Next]_vars

\* trust resolution alone: one request, every combination of peer address
\* and forwarding headers
NextTrust ==
    \/ Accept(1, TrustInputs)
    \/ TrustProxy(1)

SpecTrust == Init /\ [][NextTrust]_vars

\* a request through a trusted proxy and one straight from a public peer
BodyInputs ==
    {Request(AddrLoopbackPort, "/hi", IDUpper, ValList),
     Request(AddrPublicPort, "/health", <<>>, ValList)}

\* the request comes with a body of some length
InitBody ==
    /\ InitChain
    /\ body \in {[r \in Reqs |-> IF r = 1 THEN b ELSE Body(0)] : b \in Bodies}
    /\ environ = [k \in Settings |-> Unset]
    /\ config = NotLoaded
    /\ InitServing

\* one step of the goroutine serving request r, its handler reading the
\* body before it answers
ServeBody(r) ==
    \/ Accept(r, BodyInputs)
    \/ TrustProxy(r)
    \/ OtelMiddleware(r)
    \/ RequestLoggerEnter(r)
    \/ HandlerRead(r)
    \/ HandlerHealth(r)
    \/ HandlerHi(r)
    \/ RequestLoggerComplete(r)

NextBody == ServeBody(1)

\* one request, every body length, every sequence of reads
SpecBody == InitBody /\ [][NextBody]_vars

\* a request through a trusted proxy with its own request id, one straight
\* from a public peer, and one that panics
PairInputs ==
    {Request(AddrLoopbackPort, "/hi", IDUpper, ValList),
     Request(AddrPublicPort, "/health", <<>>, ValList),
     Request(AddrLoopbackPort, "/panic", <<>>, <<>>)}

\* short bodies, of different lengths
PairBodies == {Body(1), Body(2)}

InitPair ==
    /\ InitChain
    /\ body \in [Reqs -> PairBodies]
    /\ environ = [k \in Settings |-> Unset]
    /\ config = NotLoaded
    /\ InitServing

\* one step of the goroutine serving request r
ServePair(r) ==
    \/ Accept(r, PairInputs)
    \/ TrustProxy(r)
    \/ OtelMiddleware(r)
    \/ RequestLoggerEnter(r)
    \/ HandlerRead(r)
    \/ HandlerHealth(r)
    \/ HandlerHi(r)
    \/ HandlerPanic(r)
    \/ RequestLoggerComplete(r)
    \/ Recoverer(r)

NextPair == \E r \in Reqs : ServePair(r)

\* requests served concurrently, each reading its own body
SpecPair == InitPair /\ [][NextPair]_vars

\* IP addresses inside, at the edges of and outside the trusted prefixes
IPLoopback == <<"1", "2", "7", ".", "0", ".", "0", ".", "1">>
IPLoopbackLast == <<"1", "2", "7", ".", "2", "5", "5", ".", "2", "5", "5", ".", "2", "5", "5">>
IPAfterLoopback == <<"1", "2", "8", ".", "0", ".", "0", ".", "1">>
IPTen == <<"1", "0", ".", "1", ".", "2", ".", "3">>
IPEleven == <<"1", "1", ".", "0", ".", "0", ".", "0">>
IP172First == <<"1", "7", "2", ".", "1", "6", ".", "0", ".", "0">>
IP172Last == <<"1", "7", "2", ".", "3", "1", ".", "2", "5", "5", ".", "2", "5", "5">>
IP172After == <<"1", "7", "2", ".", "3", "2", ".", "0", ".", "0">>
IP172Before == <<"1", "7", "2", ".", "1", "5", ".", "2", "5", "5", ".", "2", "5", "5">>
IP192 == <<"1", "9", "2", ".", "1", "6", "8", ".", "0", ".", "1">>
IP192After == <<"1", "9", "2", ".", "1", "6", "9", ".", "0", ".", "1">>
IPPublic == <<"8", ".", "8", ".", "8", ".", "8">>
IP6Loopback == <<":", ":", "1">>
IP6LoopbackLong == <<"0", ":", "0", ":", "0", ":", "0", ":", "0", ":", "0", ":", "0", ":", "1">>
IP6Two == <<":", ":", "2">>
IP6Zero == <<":", ":">>
IP6UlaFirst == <<"f", "d", "0", "0", ":", ":", "1">>
IP6UlaLast == <<"f", "d", "f", "f", ":", ":", "1">>
IP6AfterUla == <<"f", "e", "0", "0", ":", ":", "1">>
IP6BeforeUla == <<"f", "c", "0", "0", ":", ":", "1">>
IP6Public == <<"2", "0", "0", "1", ":", "d", "b", "8", ":", ":", "1">>

SampleIPs == {IPLoopback, IPLoopbackLast, IPAfterLoopback, IPTen, IPEleven, IP172First, IP172Last, IP172After, IP172Before, IP192, IP192After, IPPublic, IP6Loopback, IP6LoopbackLong, IP6Two, IP6Zero, IP6UlaFirst, IP6UlaLast, IP6AfterUla, IP6BeforeUla, IP6Public}

\* the address with a port, as net.JoinHostPort writes it
WithPort(ip) ==
    IF ":" \in Range(ip) THEN <<"[">> \o ip \o <<"]", ":", "8", "0">>
    ELSE ip \o <<":", "8", "0">>

\* every sample address in both forms, with and without forwarding headers
FormInputs ==
    {[RemoteAddr |-> a, Host |-> HostOrig, Scheme |-> <<>>, Path |-> "/hi", Header |-> h] :
        a \in SampleIPs \cup {WithPort(ip) : ip \in SampleIPs},
        h \in {NoHeaders, [NoHeaders EXCEPT !["X-Forwarded-For"] = ValPlain],
               [NoHeaders EXCEPT ![xForwardedHost] = HostFwd]}}

NextForms ==
    \/ Accept(1, FormInputs)
    \/ TrustProxy(1)

\* trust resolution on peers given with and without a port
SpecForms == Init /\ [][NextForms]_vars

\* the process starts in some environment
InitConf ==
    /\ InitChain
    /\ body = [r \in Reqs |-> Body(0)]
    /\ environ \in Environments
    /\ config = NotLoaded
    /\ InitServing

\* cfg, err := newConfig()
LoadConfig ==
    /\ ~config.called
    /\ config' = newConfig(environ)
    /\ UNCHANGED <<pc, req, arrival, verdict, handed, resp, ww, traceID, reqID, entry, panicking,
                   generated, log, lifeVars, bodyVars, stages, environ>>

\* configuration loading alone, in every environment
SpecConfig == InitConf /\ [][LoadConfig]_vars

\* ------------------------------------------------------------------------
\* Process lifecycle: main(), the listener goroutine, signals, the shutdown
\* deadline.  Handlers are seen here only as connections still being served.
\* ------------------------------------------------------------------------

\* connections the listener accepts
MaxConns == 2

\* SIGINT/SIGTERM deliveries
MaxSignals == 2

InitLife ==
    /\ mainPC = "config"
    /\ lisPC = "none"
    /\ exitCode = Running
    /\ inShutdown = FALSE
    /\ sigChan = 0
    /\ sigsSent = 0
    /\ active = 0
    /\ expired = FALSE
    /\ otelCalls = 0

\* a record of the process itself, not of a request
ProcessRecord(lvl, msg) == [of |-> 0, lvl |-> lvl, msg |-> msg]

\* cfg, err := newConfig(); log.Fatal(err) writes to stderr and exits 1
NewConfig ==
    /\ exitCode = Running
    /\ mainPC = "config"
    /\ \/ mainPC' = "otelSetup" /\ UNCHANGED exitCode
       \/ exitCode' = "1" /\ UNCHANGED mainPC
    /\ UNCHANGED <<pipeVars, log, lisPC, inShutdown, sigChan, sigsSent, active, expired, otelCalls>>

\* otelShutdown, err := setupOTelSDK(...)
SetupOTel ==
    /\ exitCode = Running
    /\ mainPC = "otelSetup"
    /\ \/ mainPC' = "spawn" /\ UNCHANGED <<exitCode, log>>
       \/ /\ log' = Append(log, ProcessRecord("ERROR", "Setting up open telemetry"))
          /\ exitCode' = "1"
          /\ UNCHANGED mainPC
    /\ UNCHANGED <<pipeVars, lisPC, inShutdown, sigChan, sigsSent, active, expired, otelCalls>>

\* go func() { srv.ListenAndServe() ... }()
SpawnListener ==
    /\ exitCode = Running
    /\ mainPC = "spawn"
    /\ lisPC' = "start"
    /\ mainPC' = "announce"
    /\ UNCHANGED <<pipeVars, log, exitCode, inShutdown, sigChan, sigsSent, active, expired, otelCalls>>

\* logger.Info("Listening ..."); signal.Notify(shutdown, SIGINT, SIGTERM)
Announce ==
    /\ exitCode = Running
    /\ mainPC = "announce"
    /\ log' = Append(log, ProcessRecord("INFO", "Listening for HTTP"))
    /\ mainPC' = "wait"
    /\ UNCHANGED <<pipeVars, lisPC, exitCode, inShutdown, sigChan, sigsSent, active, expired, otelCalls>>

\* signal.Notify has been called: signals go to the channel
Notified == mainPC \in {"wait", "shutdown", "draining", "otelShutdown"}

\* a SIGINT or SIGTERM reaches the process: buffered in the channel
\* (dropped when the buffer is full), or fatal before signal.Notify
Signal ==
    /\ exitCode = Running
    /\ sigsSent < MaxSignals
    /\ sigsSent' = sigsSent + 1
    /\ IF Notified
       THEN /\ sigChan' = 1
            /\ UNCHANGED exitCode
       ELSE /\ exitCode' = "signal"
            /\ UNCHANGED sigChan
    /\ UNCHANGED <<pipeVars, log, mainPC, lisPC, inShutdown, active, expired, otelCalls>>

\* sig := <-shutdown; the shutdown context and its deadline are created
AwaitSignal ==
    /\ exitCode = Running
    /\ mainPC = "wait"
    /\ sigChan > 0
    /\ sigChan' = sigChan - 1
    /\ log' = Append(log, ProcessRecord("INFO", "Shutdown signal received"))
    /\ mainPC' = "shutdown"
    /\ UNCHANGED <<pipeVars, lisPC, exitCode, inShutdown, sigsSent, active, expired, otelCalls>>

\* the deadline of context.WithTimeout(cfg.shutdownTimeout) passes
DeadlineExpires ==
    /\ exitCode = Running
    /\ mainPC \in {"shutdown", "draining", "otelShutdown"}
    /\ ~expired
    /\ expired' = TRUE
    /\ UNCHANGED <<pipeVars, log, mainPC, lisPC, exitCode, inShutdown, sigChan, sigsSent, active, otelCalls>>

\* srv.Shutdown(ctx) marks the server as shutting down and closes the
\* listener, then waits for the connections
ShutdownBegin ==
    /\ exitCode = Running
    /\ mainPC = "shutdown"
    /\ inShutdown' = TRUE
    /\ mainPC' = "draining"
    /\ UNCHANGED <<pipeVars, log, lisPC, exitCode, sigChan, sigsSent, active, expired, otelCalls>>

\* srv.Shutdown returns nil once no connection is active
ShutdownDrained ==
    /\ exitCode = Running
    /\ mainPC = "draining"
    /\ active = 0
    /\ mainPC' = "otelShutdown"
    /\ UNCHANGED <<pipeVars, log, lisPC, exitCode, inShutdown, sigChan, sigsSent, active, expired, otelCalls>>

\* the variant of the shutdown wait that has no deadline
ShutdownTimeoutNever ==
    /\ FALSE
    /\ UNCHANGED vars

\* srv.Shutdown returns ctx.Err() when the deadline passes with a
\* connection still active: logged, os.Exit(1)
ShutdownTimeout ==
    /\ exitCode = Running
    /\ mainPC = "draining"
    /\ active > 0
    /\ expired
    /\ log' = Append(log, ProcessRecord("ERROR", "Server shutdown"))
    /\ exitCode' = "1"
    /\ UNCHANGED <<pipeVars, mainPC, lisPC, inShutdown, sigChan, sigsSent, active, expired, otelCalls>>

\* the variant of the teardown step that logs a failed teardown and
\* lets main return all the same
OtelShutdownSwallow ==
    /\ exitCode = Running
    /\ mainPC = "otelShutdown"
    /\ otelCalls' = otelCalls + 1
    /\ exitCode' = "0"
    /\ \/ UNCHANGED log
       \/ log' = Append(log, ProcessRecord("ERROR", "Open telemetry shutdown"))
    /\ UNCHANGED <<pipeVars, mainPC, lisPC, inShutdown, sigChan, sigsSent, active, expired>>

\* err = otelShutdown(ctx): nil and main returns, or an error (a failed
\* flush, or the deadline) that is logged before os.Exit(1)
OtelShutdown ==
    /\ exitCode = Running
    /\ mainPC = "otelShutdown"
    /\ otelCalls' = otelCalls + 1
    /\ \/ exitCode' = "0" /\ UNCHANGED log
       \/ /\ log' = Append(log, ProcessRecord("ERROR", "Open telemetry shutdown"))
          /\ exitCode' = "1"
    /\ UNCHANGED <<pipeVars, mainPC, lisPC, inShutdown, sigChan, sigsSent, active, expired>>

\* srv.ListenAndServe(): ErrServerClosed at once when the server is
\* already shutting down; otherwise it binds, or returns the bind error
ListenAndServe ==
    /\ exitCode = Running
    /\ lisPC = "start"
    /\ IF inShutdown
       THEN lisPC' = "returned"
       ELSE \/ lisPC' = "serving"
            \/ lisPC' = "failed"
    /\ UNCHANGED <<pipeVars, log, mainPC, exitCode, inShutdown, sigChan, sigsSent, active, expired, otelCalls>>

\* the variant of the accept loop that goes on after Shutdown
ListenerAcceptAnytime ==
    /\ exitCode = Running
    /\ lisPC = "serving"
    /\ active < MaxConns
    /\ active' = active + 1
    /\ UNCHANGED <<pipeVars, log, mainPC, lisPC, exitCode, inShutdown, sigChan, sigsSent, expired, otelCalls>>

\* the accept loop takes a connection and starts its handler
ListenerAccept ==
    /\ exitCode = Running
    /\ lisPC = "serving"
    /\ ~inShutdown
    /\ active < MaxConns
    /\ active' = active + 1
    /\ UNCHANGED <<pipeVars, log, mainPC, lisPC, exitCode, inShutdown, sigChan, sigsSent, expired, otelCalls>>

\* ListenAndServe has returned an error other than ErrServerClosed: from
\* the bind ("failed") or from the accept loop ("broken")
ListenerFailed == lisPC \in {"failed", "broken"}

\* the accept loop fails while the server is not shutting down:
\* ListenAndServe returns an error other than ErrServerClosed
ListenerError ==
    /\ exitCode = Running
    /\ lisPC = "serving"
    /\ ~inShutdown
    /\ lisPC' = "broken"
    /\ UNCHANGED <<pipeVars, log, mainPC, exitCode, inShutdown, sigChan, sigsSent, active, expired, otelCalls>>

\* the goroutine's branch for err != nil && !errors.Is(err, ErrServerClosed):
\* logger.Error("Server error"), os.Exit(1)
ListenerFatal ==
    /\ exitCode = Running
    /\ ListenerFailed
    /\ log' = Append(log, ProcessRecord("ERROR", "Server error"))
    /\ exitCode' = "1"
    /\ UNCHANGED <<pipeVars, mainPC, lisPC, inShutdown, sigChan, sigsSent, active, expired, otelCalls>>

\* the accept loop finds the listener closed by Shutdown:
\* ErrServerClosed, which the goroutine ignores
ListenerClosed ==
    /\ exitCode = Running
    /\ lisPC = "serving"
    /\ inShutdown
    /\ lisPC' = "returned"
    /\ UNCHANGED <<pipeVars, log, mainPC, exitCode, inShutdown, sigChan, sigsSent, active, expired, otelCalls>>

\* a handler returns and its connection goes idle
HandlerFinish ==
    /\ exitCode = Running
    /\ active > 0
    /\ active' = active - 1
    /\ UNCHANGED <<pipeVars, log, mainPC, lisPC, exitCode, inShutdown, sigChan, sigsSent, expired, otelCalls>>

MainStep ==
    \/ NewConfig
    \/ SetupOTel
    \/ SpawnListener
    \/ Announce
    \/ AwaitSignal
    \/ ShutdownBegin
    \/ ShutdownDrained
    \/ ShutdownTimeout
    \/ OtelShutdown

ListenerStep ==
    \/ ListenAndServe
    \/ ListenerAccept
    \/ ListenerError
    \/ ListenerFatal
    \/ ListenerClosed

NextLife ==
    \/ MainStep
    \/ ListenerStep
    \/ Signal
    \/ DeadlineExpires
    \/ HandlerFinish

InitMain == InitPipe /\ InitLife

\* the process from the start of main()
SpecLife == InitMain /\ [][NextLife]_vars

\* ... with main() and the listener goroutine scheduled and time passing;
\* nothing makes a handler finish or a signal arrive
SpecLifeFair ==
    /\ SpecLife
    /\ WF_vars(MainStep)
    /\ WF_vars(ListenerStep)
    /\ WF_vars(DeadlineExpires)

\* ------------------------------------------------------------------------
\* Properties of trust resolution
\* ------------------------------------------------------------------------

\* the sample peers by what they are, independently of isTrustedIP
PublicAddrs == {AddrPublicEdge, AddrPublicPort, AddrV6PublicPort, AddrV6PublicBare}

PrivateAddrs == {AddrLoopbackPort, AddrPrivateBare, AddrPrivateEdge, AddrV6LoopbackPort, AddrV6UlaBare}

MalformedAddrs == {AddrBadName, AddrBadOctet, AddrEmpty}

\* request r has been through trustProxy
Resolved(r) == pc[r] \notin {"idle", "trust"}

\* the request as accepted, with every header removed
Headerless(r) ==
    [RemoteAddr |-> arrival[r].RemoteAddr, Host |-> arrival[r].Host,
     Scheme |-> arrival[r].Scheme, Header |-> NoHeaders, Path |-> req[r].Path]

SomeHeader(r, names) == \E k \in DOMAIN names : req[r].Header[names[k]] # <<>>

\* C1: a request from a peer outside every trusted prefix reaches the next
\* handler with RemoteAddr, Host and URL.Scheme as accepted, whatever its
\* forwarding headers say, and the verdict on a request is the verdict on
\* the same request without headers.
C1_UntrustedPeerKeepsOrigin ==
    \A r \in Reqs :
        Resolved(r) =>
            /\ verdict[r] = trustProxyOutcome(Headerless(r)).verdict
            /\ (arrival[r].RemoteAddr \in PublicAddrs =>
                    /\ verdict[r] = "untrusted"
                    /\ handed[r].called
                    /\ handed[r].origin = arrival[r]
                    /\ Origin(req[r]) = arrival[r])

C1_Witness ==
    /\ pc[1] = "otel"
    /\ arrival[1].RemoteAddr = AddrPublicEdge
    /\ req[1].Header["X-Forwarded-For"] = ValList
    /\ req[1].Header["X-Forwarded-Proto"] = SchemeUpper
    /\ handed[1].origin.RemoteAddr = AddrPublicEdge

\* C2 (as claimed): for a trusted peer with a non-empty scheme header, the
\* URL.Scheme seen downstream is the lower-cased value of the first such
\* header in the order X-Forwarded-Proto, X-Forwarded-Scheme.
C2_SchemeFromHeader ==
    \A r \in Reqs :
        (Resolved(r) /\ arrival[r].RemoteAddr \in PrivateAddrs /\ SomeHeader(r, schemeHeaders)) =>
            handed[r].origin.Scheme
                = ToLower(req[r].Header[schemeHeaders[FirstPresent(req[r].Header, schemeHeaders)]])

\* the value of the first proxy-IP header that is set, and its first token
FirstProxyValue(r) == req[r].Header[proxyIPHeaders[FirstPresent(req[r].Header, proxyIPHeaders)]]

FirstToken(r) == SplitN2First(FirstProxyValue(r), ",")

\* C3 (as claimed): for a trusted peer the resolved client address equals
\* the part before the first comma of the first non-empty proxy-IP header.
C3_AddrIsFirstToken ==
    \A r \in Reqs :
        (Resolved(r) /\ arrival[r].RemoteAddr \in PrivateAddrs /\ SomeHeader(r, proxyIPHeaders)) =>
            handed[r].origin.RemoteAddr = FirstToken(r)

\* C3 (amended): ... equals that first token when the token is not empty
\* ("203.0.113.5, 70.41.3.18" gives "203.0.113.5"); when the value starts
\* with a comma the peer address is kept, and no lower-priority header is
\* consulted in either case.
C3_AddrIsFirstNonEmptyToken ==
    \A r \in Reqs :
        (Resolved(r) /\ arrival[r].RemoteAddr \in PrivateAddrs /\ SomeHeader(r, proxyIPHeaders)) =>
            /\ verdict[r] = "trusted"
            /\ handed[r].called
            /\ handed[r].origin.RemoteAddr
                 = (IF FirstToken(r) # <<>> THEN FirstToken(r) ELSE arrival[r].RemoteAddr)
            /\ (FirstProxyValue(r) = ValList => handed[r].origin.RemoteAddr = ValListFirst)

C3_Witness ==
    /\ pc[1] = "otel"
    /\ arrival[1].RemoteAddr = AddrPrivateEdge
    /\ req[1].Header["X-Forwarded-For"] = ValList
    /\ req[1].Header["True-Client-IP"] = ValPlain
    /\ handed[1].origin.RemoteAddr = ValListFirst

\* C10: for a trusted peer each origin field changes only if its own header
\* source is set, independently of the other two, and no field is ever
\* replaced by the empty string.
C10_FieldsChangeOnlyFromOwnHeader ==
    \A r \in Reqs :
        (Resolved(r) /\ arrival[r].RemoteAddr \in PrivateAddrs) =>
            /\ verdict[r] = "trusted"
            /\ handed[r].called
            /\ (~SomeHeader(r, proxyIPHeaders) => handed[r].origin.RemoteAddr = arrival[r].RemoteAddr)
            /\ (req[r].Header[xForwardedHost] = <<>> => handed[r].origin.Host = arrival[r].Host)
            /\ (~SomeHeader(r, schemeHeaders) => handed[r].origin.Scheme = arrival[r].Scheme)
            /\ handed[r].origin.RemoteAddr # <<>>
            /\ handed[r].origin.Host # <<>>
            /\ (handed[r].origin.Scheme = <<>> => arrival[r].Scheme = <<>>)
            /\ Origin(req[r]) = handed[r].origin

C10_Witness ==
    /\ pc[1] = "otel"
    /\ arrival[1].RemoteAddr = AddrLoopbackPort
    /\ arrival[1].Scheme = SchemeLower
    /\ req[1].Header = NoHeaders
    /\ handed[1].origin = arrival[1]

C10_WitnessHostOnly ==
    /\ pc[1] = "otel"
    /\ arrival[1].RemoteAddr = AddrV6UlaBare
    /\ req[1].Header = [NoHeaders EXCEPT ![xForwardedHost] = HostFwd]
    /\ handed[1].origin = [arrival[1] EXCEPT !.Host = HostFwd]

\* ------------------------------------------------------------------------
\* Properties of the middleware chain
\* ------------------------------------------------------------------------

\* the records request r caused, in order
RECURSIVE RecordsOf(_, _)
RecordsOf(l, r) ==
    IF l = <<>> THEN <<>>
    ELSE IF Head(l).of = r THEN <<Head(l)>> \o RecordsOf(Tail(l), r)
    ELSE RecordsOf(Tail(l), r)

Completions(r) == {i \in DOMAIN log : log[i].of = r /\ log[i].msg = "Request handled"}

Errors(r) == {i \in DOMAIN log : log[i].of = r /\ log[i].lvl = "ERROR"}

\* what belongs to request q alone
Own(q) == <<pc[q], req[q], arrival[q], verdict[q], handed[q], resp[q], ww[q],
            traceID[q], reqID[q], entry[q], panicking[q], RecordsOf(log, q)>>

\* C4 (as claimed): every request that has left the chain, by return, by
\* panic or by rejection in trustProxy, has exactly one "Request handled"
\* record.
C4_OneCompletionPerRequest ==
    \A r \in Reqs : pc[r] = "done" => Cardinality(Completions(r)) = 1

\* C8, per request: a peer address that does not parse is answered with
\* 500 and one error record carrying that address; no later stage runs and
\* the origin fields stay as accepted.
C8_Rejected(r) ==
    /\ verdict[r] = "error"
    /\ pc[r] = "done"
    /\ resp[r].wroteHeader /\ resp[r].status = 500
    /\ ~handed[r].called
    /\ traceID[r] = "" /\ reqID[r] = <<>> /\ ~entry[r].set /\ ww[r] = NewWriter
    /\ Origin(req[r]) = arrival[r]
    /\ RecordsOf(log, r) = << [of |-> r, lvl |-> "ERROR", msg |-> "ParseAddr failed",
                               ip |-> arrival[r].RemoteAddr] >>

\* C8: ... and the step that rejects one request changes nothing that
\* belongs to another.
C8_MalformedPeerRejected ==
    /\ [](\A r \in Reqs : (Resolved(r) /\ arrival[r].RemoteAddr \in MalformedAddrs) => C8_Rejected(r))
    /\ [][\A r \in Reqs : (pc[r] = "trust" /\ pc'[r] = "done") =>
              \A q \in Reqs \ {r} : Own(q)' = Own(q)]_vars

C8_Witness ==
    /\ arrival[1].RemoteAddr = AddrBadOctet
    /\ pc[1] = "done"
    /\ resp[1].status = 500
    /\ pc[2] = "handler"
    /\ Len(log) = 1

\* the request reached its route handler and the handler panicked
Panicked(r) == pc[r] = "done" /\ handed[r].called /\ req[r].Path = "/panic"

\* C5: a handler panic is caught and not re-raised; exactly one error
\* record reports it, with the panic value, a stack and the request's
\* reqId and traceId; the response has a status; the process lives on and
\* the listener keeps serving.
C5_PanicRecovered ==
    \A r \in Reqs :
        Panicked(r) =>
            /\ panicking[r] = ""
            /\ exitCode = Running
            /\ Cardinality(Errors(r)) = 1
            /\ LET rec == log[CHOOSE i \in Errors(r) : TRUE]
               IN  /\ rec.msg = "panic caught"
                   /\ rec.panic = "testing panic recovery and logging"
                   /\ rec.stack # ""
                   /\ rec.reqId = reqID[r] /\ reqID[r] # <<>>
                   /\ rec.traceId = traceID[r] /\ traceID[r] \in TraceIDs
            /\ resp[r].wroteHeader /\ resp[r].status = 500 /\ ~resp[r].dropped
            /\ lisPC = "serving"

C5_Witness ==
    /\ Panicked(1)
    /\ req[1].Header[xRequestID] = IDCanonical
    /\ pc[2] = "done" /\ req[2].Path = "/hi"
    /\ Len(log) = 3
    /\ log[1].msg = "panic caught" /\ log[1].reqId = IDCanonical
    /\ log[3].msg = "Request handled" /\ log[3].of = 2

\* request r has been through the request-id derivation
Identified(r) == pc[r] \in {"handler", "returned", "unwinding"} \/ (pc[r] = "done" /\ handed[r].called)

InboundID(r) == req[r].Header[xRequestID]

\* a syntactically valid identifier in canonical form
CanonicalID(s) == uuidParse(s).ok /\ Len(s) = 36 /\ ToLower(s) = s

C9_WitnessFresh ==
    /\ pc[1] = "done" /\ InboundID(1) = <<>> /\ reqID[1] = GenID(2)
    /\ pc[2] = "done" /\ InboundID(2) = IDInvalid /\ reqID[2] = GenID(1)

\* ------------------------------------------------------------------------
\* Properties of the lifecycle
\* ------------------------------------------------------------------------

Stopped == exitCode # Running

LastRecord == log[Len(log)]

\* C6 (as claimed): once shutdown has begun, the process never stops
\* without exactly one telemetry teardown behind it.
C6_TeardownOnEveryShutdownPath ==
    (Stopped /\ inShutdown) => otelCalls = 1

\* C7: when the deadline passes with a handler still running, shutdown
\* ends: the timeout is logged as an error, the process exits 1 (which
\* closes the connection), and from the start of shutdown the process
\* always reaches Stopped (a failure of the listener still waiting to be
\* reported is the one other way the wait can end).
C7_DeadlineBoundsShutdown ==
    /\ []((Stopped /\ mainPC = "draining") =>
            /\ exitCode = "1"
            /\ otelCalls = 0
            /\ \/ /\ expired /\ active > 0
                  /\ LastRecord = ProcessRecord("ERROR", "Server shutdown")
               \/ /\ ListenerFailed
                  /\ LastRecord = ProcessRecord("ERROR", "Server error"))
    /\ (mainPC \in {"shutdown", "draining", "otelShutdown"}) ~> Stopped

C7_Witness ==
    /\ Stopped
    /\ mainPC = "draining"
    /\ LastRecord = ProcessRecord("ERROR", "Server shutdown")
    /\ active = MaxConns
    /\ expired
    /\ exitCode = "1"

\* the process wrote the record through the process-wide logger
Logged(rec) == \E i \in 1..Len(log) : log[i] = rec

SignalReceived == Logged(ProcessRecord("INFO", "Shutdown signal received"))

\* srv.Shutdown and otelShutdown have both returned nil
CleanShutdown ==
    /\ SignalReceived
    /\ mainPC = "otelShutdown"
    /\ otelCalls = 1
    /\ ~Logged(ProcessRecord("ERROR", "Open telemetry shutdown"))

C11_WitnessClean == exitCode = "0" /\ CleanShutdown /\ sigsSent = MaxSignals

C11_WitnessListener ==
    /\ exitCode = "1" /\ lisPC = "broken" /\ mainPC = "wait"
    /\ LastRecord = ProcessRecord("ERROR", "Server error")

\* ------------------------------------------------------------------------
\* Properties of the body wrappers
\* ------------------------------------------------------------------------

TooLarge(r) == maxBytesReader[r].err = ErrTooLarge

\* C12: a body no longer than the maximum that the handler has read to
\* its end is reported with br equal to its length; every step adds to
\* the counter exactly the bytes that left the stream in that step, never
\* the size of the buffer, so the counter never goes down; and the error
\* a Read returns is the error the stream returned.
C12_BytesReadCounts ==
    /\ [](\A r \in Reqs :
            body[r].size <= maxAllowedRequestBytes =>
                /\ rc[r].n = body[r].size - body[r].left
                /\ delivered[r] = rc[r].n
                /\ lastRead[r].err = lastRead[r].under
                /\ \A i \in Completions(r) :
                        body[r].left = 0 => log[i].br = body[r].size)
    /\ [][\A r \in Reqs :
            /\ rc'[r].n = rc[r].n + (body[r].left - body'[r].left)
            /\ rc'[r].n >= rc[r].n]_vars

\* a body of exactly the maximum, read to io.EOF and reported
C12_Witness ==
    /\ pc[1] = "done"
    /\ body[1] = [size |-> maxAllowedRequestBytes, left |-> 0]
    /\ lastRead[1].called /\ lastRead[1].err = EOF
    /\ Completions(1) # {}
    /\ LastRecord.br = maxAllowedRequestBytes

\* a read that was handed fewer bytes than its buffer holds
C12_WitnessShortRead ==
    /\ pc[1] = "handler"
    /\ body[1].size = maxAllowedRequestBytes
    /\ rc[1].n = 1 /\ lastRead[1].n = 1 /\ lastRead[1].err = ErrUnexpectedEOF

\* C13 (as claimed): of a body longer than the maximum the handler gets
\* at most the maximum; once the bound is crossed the reads fail with the
\* too-large error, and the counter then equals the bytes delivered.
C13_CounterEqualsDelivered ==
    \A r \in Reqs :
        body[r].size > maxAllowedRequestBytes =>
            /\ delivered[r] <= maxAllowedRequestBytes
            /\ TooLarge(r) => /\ lastRead[r].err = ErrTooLarge
                               /\ rc[r].n = delivered[r]

\* C13 (amended): ... the counter then equals the bytes taken from the
\* stream: the maximum, all delivered, and the one byte more whose arrival
\* showed the body to be too long; until then it equals the bytes
\* delivered.  The error sticks: later reads deliver and count nothing.
C13_CounterIsDeliveredPlusProbe ==
    /\ [](\A r \in Reqs :
            body[r].size > maxAllowedRequestBytes =>
                /\ delivered[r] <= maxAllowedRequestBytes
                /\ rc[r].n = body[r].size - body[r].left
                /\ IF TooLarge(r)
                   THEN /\ lastRead[r].err = ErrTooLarge
                        /\ delivered[r] = maxAllowedRequestBytes
                        /\ rc[r].n = maxAllowedRequestBytes + 1
                   ELSE rc[r].n = delivered[r])
    /\ [][\A r \in Reqs :
            TooLarge(r) => /\ TooLarge(r)'
                           /\ delivered'[r] = delivered[r]
                           /\ rc'[r] = rc[r]
                           /\ lastRead'[r].err = ErrTooLarge]_vars

\* the longest body, cut off at the maximum and reported
C13_Witness ==
    /\ pc[1] = "done"
    /\ body[1].size = MaxBody
    /\ TooLarge(1)
    /\ delivered[1] = maxAllowedRequestBytes
    /\ Completions(1) # {}
    /\ LastRecord.br = maxAllowedRequestBytes + 1

\* ------------------------------------------------------------------------
\* The lifecycle state of the server
\* ------------------------------------------------------------------------

\* Starting until the listener is bound, Serving while srv.Shutdown has
\* not been called, ShuttingDown from that call on, Stopped with the
\* process
Lifecycle ==
    IF Stopped THEN "Stopped"
    ELSE IF inShutdown THEN "ShuttingDown"
    ELSE IF lisPC \in {"serving", "broken"} THEN "Serving"
    ELSE "Starting"

Rank(state) ==
    CASE state = "Starting" -> 0
      [] state = "Serving" -> 1
      [] state = "ShuttingDown" -> 2
      [] state = "Stopped" -> 3

SignalRecords == {i \in DOMAIN log : log[i] = ProcessRecord("INFO", "Shutdown signal received")}

\* C14: the lifecycle state never moves back; ShuttingDown is entered
\* only behind a received signal, and once, however many signals arrive;
\* after srv.Shutdown has been called the listener accepts no connection
\* and never starts serving.
C14_LifecycleForwardOnly ==
    /\ [](Cardinality(SignalRecords) <= 1)
    /\ [][/\ Rank(Lifecycle') >= Rank(Lifecycle)
          /\ (Lifecycle' = "ShuttingDown" /\ Lifecycle # "ShuttingDown") =>
                /\ Lifecycle \in {"Starting", "Serving"}
                /\ SignalReceived
                /\ sigsSent >= 1
          /\ inShutdown => /\ inShutdown'
                            /\ active' <= active
                            /\ (lisPC' = "serving" => lisPC = "serving")]_vars

\* two signals, one shutdown, the listener closed, the process ended
C14_Witness ==
    /\ Lifecycle = "Stopped"
    /\ sigsSent = MaxSignals
    /\ Cardinality(SignalRecords) = 1
    /\ inShutdown
    /\ lisPC = "returned"

\* srv.Shutdown called before the listener goroutine got to bind
C14_WitnessEarlySignal == Lifecycle = "ShuttingDown" /\ lisPC = "start"

\* ------------------------------------------------------------------------
\* Properties of configuration loading
\* ------------------------------------------------------------------------

\* the sample values no parser accepts, listed by hand
BadValues ==
    [PORT |-> {EnvPortBad, <<>>}, HEALTH_ENDPOINT |-> {}, LOG_LEVEL |-> {EnvLevelBad},
     SHUTDOWN_TIMEOUT_DURATION |-> {EnvTimeoutBad}, SERVICE_NAME |-> {}, SERVICE_VERSION |-> {},
     OTEL_ENABLED |-> {EnvOtelBad}, OTEL_EXPORTER_OTLP_ENDPOINT |-> {EnvEndpointBad},
     MAX_ALLOWED_REQUEST_BYTES |-> {EnvMaxBytesBad}]

\* what each of the other sample values means, worked out by hand
Meaning ==
    ( EnvPort :> 8080 ) @@ ( EnvHealth :> EnvHealth ) @@ ( <<>> :> <<>> )
    @@ ( EnvLevel :> (0 - 4) ) @@ ( EnvLevelOffset :> 6 )
    @@ ( EnvTimeout :> 90000 ) @@ ( EnvName :> EnvName ) @@ ( EnvVersion :> EnvVersion )
    @@ ( EnvOtel :> TRUE ) @@ ( EnvEndpoint :> [isNil |-> FALSE, raw |-> EnvEndpoint] )
    @@ ( EnvMaxBytes :> 2000 )

FieldOf ==
    [PORT |-> "port", HEALTH_ENDPOINT |-> "healthEndpoint", LOG_LEVEL |-> "logLevel",
     SHUTDOWN_TIMEOUT_DURATION |-> "shutdownTimeout", SERVICE_NAME |-> "serviceName",
     SERVICE_VERSION |-> "serviceVersion", OTEL_ENABLED |-> "otelEnabled",
     OTEL_EXPORTER_OTLP_ENDPOINT |-> "otelExporterOTLPEndpoint",
     MAX_ALLOWED_REQUEST_BYTES |-> "maxAllowedRequestBytes"]

FailingSettings == {k \in Settings : environ[k].set /\ environ[k].value \in BadValues[k]}

\* C15: with k >= 1 variables set to values their parsers reject,
\* newConfig returns no config and one joined error with exactly one
\* entry per failing variable, each naming it, in the order of the
\* lookups; with none, a config whose every field is the parsed value of
\* its variable when set and the default when not.
C15_ConfigErrorsAggregated ==
    config.called =>
        IF FailingSettings # {}
        THEN /\ config.cfg = NoConfig
             /\ ~config.err.isNil
             /\ Len(config.err.joined) = Cardinality(FailingSettings)
             /\ \A k \in FailingSettings :
                    Cardinality({i \in DOMAIN config.err.joined :
                                    config.err.joined[i].msg = <<"parsing env %s", k>>}) = 1
             /\ \A i, j \in DOMAIN config.err.joined :
                    i < j => IndexIn(SettingList, config.err.joined[i].msg[2])
                             < IndexIn(SettingList, config.err.joined[j].msg[2])
        ELSE /\ config.err = NoError
             /\ ~config.cfg.isNil
             /\ \A k \in Settings :
                    config.cfg[FieldOf[k]] = IF environ[k].set THEN Meaning[environ[k].value]
                                             ELSE DefaultOf[k]

\* the first and the last variable both unparseable, the rest unset
C15_Witness ==
    /\ config.called
    /\ FailingSettings = {"PORT", "MAX_ALLOWED_REQUEST_BYTES"}
    /\ \A k \in Settings \ FailingSettings : ~environ[k].set
    /\ Len(config.err.joined) = 2

\* every variable set to a value that parses
C15_WitnessAllSet ==
    /\ config.called
    /\ \A k \in Settings : environ[k].set
    /\ FailingSettings = {}
    /\ config.cfg.port = 8080 /\ config.cfg.shutdownTimeout = 90000

\* ------------------------------------------------------------------------
\* Properties of the order of the chain
\* ------------------------------------------------------------------------

\* the order mux.Use gives the middlewares, the route handler inside them
\* and the completion record behind it
StageOrder == <<"Recoverer", "trustProxy", "otelhttp", "requestLogger", "handler", "completion">>

\* C16: what a request has run is always an initial part of Recoverer,
\* trust resolution, span creation, request logger with the wrappers,
\* handler, completion record; a panic is raised only inside the Recoverer,
\* which ends it with a 500 response in a process that lives on; and a
\* completion record carries the address trustProxy handed on (for a
\* trusted peer with a proxy-IP header the forwarded one, not the peer's),
\* the reqId the request logger derived and the traceId of the span.
C16_StageOrder ==
    \A r \in Reqs :
        /\ \/ \E k \in 0..Len(StageOrder) : stages[r] = SubSeq(StageOrder, 1, k)
           \/ stages[r] = SubSeq(StageOrder, 1, 5) \o <<"recovered">>
        /\ panicking[r] # "" => stages[r] = SubSeq(StageOrder, 1, 5) /\ pc[r] = "unwinding"
        /\ (pc[r] = "done" /\ stages[r][Len(stages[r])] = "recovered") =>
                /\ panicking[r] = ""
                /\ resp[r].status = 500 /\ ~resp[r].dropped
                /\ exitCode = Running
        /\ \A i \in Completions(r) :
                /\ stages[r] = StageOrder
                /\ log[i].ip = handed[r].origin.RemoteAddr
                /\ log[i].reqId = reqID[r] /\ reqID[r] = entry[r].reqId /\ uuidParse(reqID[r]).ok
                /\ log[i].traceId = traceID[r] /\ traceID[r] \in TraceIDs
                /\ (verdict[r] = "trusted" /\ getRealIP(req[r].Header) # <<>>) =>
                        /\ log[i].ip = getRealIP(req[r].Header)
                        /\ log[i].ip # arrival[r].RemoteAddr

\* a trusted peer forwarding a chain of addresses, through to the record
C16_Witness ==
    /\ pc[1] = "done"
    /\ stages[1] = StageOrder
    /\ arrival[1].RemoteAddr = AddrLoopbackPort
    /\ verdict[1] = "trusted"
    /\ Completions(1) # {}
    /\ \A i \in Completions(1) : log[i].ip = ValListFirst

\* a panic behind all the stages, ended by the Recoverer
C16_WitnessPanic ==
    /\ pc[1] = "done"
    /\ stages[1] = SubSeq(StageOrder, 1, 5) \o <<"recovered">>

\* ------------------------------------------------------------------------
\* Properties of the listener goroutine
\* ------------------------------------------------------------------------

\* the process ended by exiting, not by a signal ahead of signal.Notify
Exited == exitCode \in {"0", "1"}

\* C17 (as claimed): however the listener goroutine and main interleave, a
\* return of ListenAndServe with ErrServerClosed leaves no "Server error"
\* record and is no reason for status 1, and any other error it returns
\* is logged as "Server error" and ends the process with status 1.
C17_ListenerErrorsAlwaysFatal ==
    /\ lisPC = "returned" =>
            /\ inShutdown
            /\ ~Logged(ProcessRecord("ERROR", "Server error"))
    /\ (ListenerFailed /\ Exited) =>
            /\ exitCode = "1"
            /\ Logged(ProcessRecord("ERROR", "Server error"))

\* the part of C17 about ErrServerClosed, on its own
C17_ServerClosedIsNoFailure ==
    lisPC = "returned" =>
        /\ inShutdown
        /\ ~Logged(ProcessRecord("ERROR", "Server error"))

\* ListenAndServe called only after srv.Shutdown
C17_WitnessEarlyShutdown == lisPC = "returned" /\ active = 0 /\ exitCode = "0"

\* main has returned while the listener's error was waiting to be reported
C17_WitnessOvertaken == ListenerFailed /\ exitCode = "0"

\* ------------------------------------------------------------------------
\* Properties of concurrent requests
\* ------------------------------------------------------------------------

\* everything that belongs to request q alone, the body wrappers included
OwnAll(q) == <<Own(q), body[q], rc[q], maxBytesReader[q], delivered[q], lastRead[q], stages[q]>>

\* the request as it was accepted
Original(r) ==
    [req[r] EXCEPT !.RemoteAddr = arrival[r].RemoteAddr, !.Host = arrival[r].Host,
                   !.Scheme = arrival[r].Scheme]

\* the request got its reqId from uuid.NewString
FreshID(r) == reqID[r] # <<>> /\ ~uuidParse(InboundID(r)).ok

\* C18: with requests in flight together, a completion record reports
\* the bytes read of the request's own body, the bytes and status of its
\* own response, the address resolved from its own peer and headers and
\* the reqId derived from its own header (two generated ones never
\* alike); and no step changes what belongs to two requests.
C18_RequestsIsolated ==
    /\ [](\A r \in Reqs :
            /\ \A i \in Completions(r) :
                    /\ log[i].br = body[r].size - body[r].left
                    /\ log[i].br = delivered[r]
                    /\ log[i].bw = (IF req[r].Path = "/hi" THEN 2 ELSE 0)
                    /\ log[i].status = 200
                    /\ log[i].ip = trustProxyOutcome(Original(r)).req.RemoteAddr
                    /\ log[i].reqId = deriveReqID(InboundID(r), reqID[r])
            /\ verdict[r] # "none" => verdict[r] = trustProxyOutcome(Original(r)).verdict
            /\ \A q \in Reqs \ {r} : (FreshID(q) /\ FreshID(r)) => reqID[q] # reqID[r])
    /\ [][\A q, r \in Reqs :
            (q # r /\ OwnAll(q)' # OwnAll(q)) => OwnAll(r)' = OwnAll(r)]_vars

\* two requests in flight together: the first has answered, the second
\* finishes, then the first; different bodies, different addresses
C18_Witness ==
    /\ pc[1] = "done" /\ pc[2] = "done"
    /\ Completions(1) # {} /\ Completions(2) # {}
    /\ \E i, j, k \in DOMAIN log :
            /\ i < j /\ j < k
            /\ log[i].of = 1 /\ log[i].msg = "hi"
            /\ log[j].of = 2 /\ log[j].msg = "Request handled"
            /\ log[k].of = 1 /\ log[k].msg = "Request handled"
            /\ log[j].br = 1 /\ log[k].br = 2
            /\ log[j].ip = AddrPublicPort /\ log[k].ip = ValListFirst
            /\ log[j].reqId # log[k].reqId

\* ------------------------------------------------------------------------
\* Properties of the forms of the peer address
\* ------------------------------------------------------------------------

\* the sample addresses that lie in 192.168.0.0/16, 172.16.0.0/12,
\* 10.0.0.0/8, 127.0.0.1/8, fd00::/8 or are ::1, listed by hand
TrustedByHand == {IPLoopback, IPLoopbackLast, IPTen, IP172First, IP172Last, IP192, IP6Loopback, IP6LoopbackLong, IP6UlaFirst, IP6UlaLast}

\* C19: isTrustedIP returns no error for an IPv4 or IPv6 address with or
\* without a port, the verdict is the same for both forms, and it is
\* "trusted" exactly for the addresses inside a trusted prefix (::1 alone
\* for the single-host entry).
C19_BothFormsSameVerdict ==
    \A ip \in SampleIPs :
        (Resolved(1) /\ arrival[1].RemoteAddr \in {ip, WithPort(ip)}) =>
            /\ verdict[1] = (IF ip \in TrustedByHand THEN "trusted" ELSE "untrusted")
            /\ handed[1].called
            /\ LET bare == isTrustedIP(ip, parsedTrustedIPs)
                   ported == isTrustedIP(WithPort(ip), parsedTrustedIPs)
               IN  /\ ~bare.err /\ ~ported.err
                   /\ bare.trusted = ported.trusted

\* the single-host entry met by a bare IPv6 address
C19_Witness ==
    /\ Resolved(1)
    /\ arrival[1].RemoteAddr = IP6Loopback
    /\ verdict[1] = "trusted"

C19_WitnessNeighbour ==
    /\ Resolved(1)
    /\ arrival[1].RemoteAddr = WithPort(IP6Two)
    /\ verdict[1] = "untrusted"

====
